---------------------------- MODULE Spec2Model ----------------------------
(***************************************************************************)
(* Model of elasticflow's condition compiler: FieldMapper                  *)
(* (core/fields.py), the condition model and DefaultConditionParser         *)
(* (core/conditions.py), DslQueryBuilder (builders/dsl.py) and              *)
(* QueryStringBuilder (builders/query_string.py), of ESClientFactory       *)
(* (connection/tool.py) and of BulkOperationTool (bulk/tool.py).            *)
(*                                                                         *)
(* Encoding of Python values.                                              *)
(*   dict            a record; an absent key is an absent field            *)
(*   list            a sequence                                            *)
(*   str             a TLA+ string where the code only compares it (type,  *)
(*                   key, method, condition); a sequence of one-character  *)
(*                   strings where the code looks inside it (path,         *)
(*                   minimum_should_match)                                 *)
(*   None            NoneV                                                 *)
(*   int | str       tagged: [int |-> n], [chars |-> <<"5","0","%">>]      *)
(*   sort entry      a sequence of tokens, "-" or a name: "-a" is          *)
(*                   <<"-", "a">>; a registered name is one token          *)
(*   aggregation name  a sequence of tokens: a double quote, a dot and a    *)
(*                   space are tokens of their own, any other token holds   *)
(*                   none of them: "agg x" is <<"agg", " ", "x">>           *)
(*   query string    a sequence of tokens: a whitespace character is a      *)
(*                   token of its own, any other token holds none           *)
(*   value of an item  [list |-> <<...>>] or [scalar |-> n]                *)
(*   Q objects       records with a field kind (terms, wildcard, range,    *)
(*                   exists, bool, nested, match_none)                     *)
(***************************************************************************)
EXTENDS Integers, Sequences, FiniteSets, TLC

VARIABLES
    input,            \* the condition list the caller holds
    given,            \* the list last passed to conditions() and not cleared since
    self_conditions,  \* DslQueryBuilder._conditions
    self_query_string,   \* DslQueryBuilder._query_string
    self_extra_filters,  \* DslQueryBuilder._extra_filters
    self_ordering,    \* DslQueryBuilder._ordering
    self_page,        \* DslQueryBuilder._page
    self_page_size,   \* DslQueryBuilder._page_size
    self_aggregations,      \* DslQueryBuilder._aggregations
    self_raw_aggregations,  \* DslQueryBuilder._raw_aggregations
    paged,            \* the arguments of the latest pagination() call, and
                      \* whether clear() was called since
    last,             \* the caller's last call on the builder
    doc,              \* what the last build() returned (NoDoc before it)
    args,             \* the arguments a direct caller of the constructors holds
    made,             \* what the last constructor call returned
    self_filters,     \* QueryStringBuilder._filters
    self_connection_config,  \* ESClientFactory._connection_config
    self_clients,     \* ESClientFactory._clients: role -> index in created
    created,          \* the Elasticsearch objects constructed so far
    closed_all,       \* how many close_all() calls returned
    bulk_result,      \* the BulkResult of the bulk_execute call
    pc,               \* where the bulk_execute call stands
    batch_start,      \* i of the loop over batches, counted from 1
    actions,          \* actions of _execute_bulk_with_retry: the doc ids to send
    attempt,          \* attempt of the retry loop
    heap,             \* the list and dict objects of the condition lists, by address
    self_conditions_at   \* the address of the list DslQueryBuilder._conditions refers to

vars ==
    <<input, given, self_conditions, self_query_string, self_extra_filters,
      self_ordering, self_page, self_page_size,
      self_aggregations, self_raw_aggregations, paged, last, doc, args, made,
      self_filters, self_connection_config, self_clients, created, closed_all,
      bulk_result, pc, batch_start, actions, attempt, heap, self_conditions_at>>

\* the builder's state besides _conditions
paging == <<self_page, self_page_size, paged>>
aggregating == <<self_aggregations, self_raw_aggregations>>
filtering == <<self_query_string, self_extra_filters>>
others == <<self_ordering, paging, aggregating, filtering>>
\* the objects beside the DslQueryBuilder
factory == <<self_connection_config, self_clients, created, closed_all>>
bulking == <<bulk_result, pc, batch_start, actions, attempt>>
referring == <<heap, self_conditions_at>>
peers == <<self_filters, factory, bulking, referring>>
\* the DslQueryBuilder and what its caller holds
building == <<input, given, self_conditions, others, doc>>
\* what a call on the QueryStringBuilder leaves alone, and on the factory
but_filters == <<building, args, factory, bulking, referring>>
but_factory == <<building, args, self_filters, bulking, referring>>
but_bulking == <<building, args, self_filters, factory, referring>>

NoneV == [none |-> TRUE]
IntV(n) == [int |-> n]
StrV(s) == [str |-> s]
CharsV(cs) == [chars |-> cs]
DictV(d) == [dict |-> d]
ListV(xs) == [list |-> xs]
ScalarV(x) == [scalar |-> x]

\* dict.get(k, default)
Get(d, k, default) == IF k \in DOMAIN d THEN d[k] ELSE default

IsList(v) == "list" \in DOMAIN v
IsInt(v) == "int" \in DOMAIN v
IsChars(v) == "chars" \in DOMAIN v

-----------------------------------------------------------------------------
(* core/fields.py *)

\* FieldMapper._fields: the QueryField registered for each application name.
\* "a" resolves to "b", itself a registered name, so resolving twice shows;
\* "z" has an empty aggregation name.
Fields ==
    [a |-> [es_field |-> "b", es_field_for_agg |-> StrV("b.keyword")],
     b |-> [es_field |-> "c", es_field_for_agg |-> NoneV],
     n |-> [es_field |-> "n.raw", es_field_for_agg |-> StrV("n.keyword")],
     z |-> [es_field |-> "zz", es_field_for_agg |-> StrV("")],
     k |-> [es_field |-> "a", es_field_for_agg |-> StrV("b")]]

\* a QueryField.get_es_field that forgets for_agg
QueryField_get_es_field_plain(f, for_agg) == f.es_field

\* QueryField.get_es_field: `for_agg and self.es_field_for_agg`, so None and
\* the empty string both fall back to es_field
QueryField_get_es_field(f, for_agg) ==
    IF for_agg /\ f.es_field_for_agg # NoneV /\ f.es_field_for_agg.str # ""
    THEN f.es_field_for_agg.str
    ELSE f.es_field

get_es_field(field, for_agg) ==
    IF field \in DOMAIN Fields
    THEN QueryField_get_es_field(Fields[field], for_agg)
    ELSE field

\* a _transform_single that resolves the resolved name again
transform_single_twice(cond) ==
    IF "key" \notin DOMAIN cond
    THEN cond
    ELSE [k \in DOMAIN cond \cup {"origin_key"} |->
            IF k = "origin_key" THEN cond["key"]
            ELSE IF k = "key" THEN get_es_field(get_es_field(cond["key"], FALSE), FALSE)
            ELSE cond[k]]

\* _transform_single: an item without key is returned as it is
transform_single(cond) ==
    IF "key" \notin DOMAIN cond
    THEN cond
    ELSE [k \in DOMAIN cond \cup {"origin_key"} |->
            IF k = "origin_key" THEN cond["key"]
            ELSE IF k = "key" THEN get_es_field(cond["key"], FALSE)
            ELSE cond[k]]

RECURSIVE transform_condition(_)

transform_children(children) ==
    [i \in 1..Len(children) |-> transform_condition(children[i])]

\* _transform_group and _transform_nested have the same body
transform_group(group_dict) ==
    IF "children" \in DOMAIN group_dict
    THEN [group_dict EXCEPT !.children = transform_children(group_dict.children)]
    ELSE group_dict

transform_nested(nested_dict) ==
    IF "children" \in DOMAIN nested_dict
    THEN [nested_dict EXCEPT !.children = transform_children(nested_dict.children)]
    ELSE nested_dict

transform_condition(cond) ==
    LET cond_type == Get(cond, "type", "item")
    IN  IF cond_type = "group" THEN transform_group(cond)
        ELSE IF cond_type = "nested" THEN transform_nested(cond)
        ELSE transform_single(cond)

transform_condition_fields(conds) ==
    [i \in 1..Len(conds) |-> transform_condition(conds[i])]

\* self.get_es_field(s, for_agg) for a string given as its tokens: only a
\* string of one token can be a registered name
get_es_field_of(s, for_agg) ==
    IF Len(s) = 1 THEN <<get_es_field(s[1], for_agg)>> ELSE s

\* field.startswith("-")
startswith_minus(field) == Len(field) >= 1 /\ field[1] = "-"

\* a loop body that looks up the entry with its sign
ordering_entry_signed(field) == get_es_field_of(field, TRUE)

\* the body of the loop of transform_ordering_fields
ordering_entry(field) ==
    IF startswith_minus(field)
    THEN <<"-">> \o get_es_field_of(Tail(field), TRUE)
    ELSE get_es_field_of(field, TRUE)

\* FieldMapper.transform_ordering_fields
transform_ordering_fields(ordering) ==
    [i \in 1..Len(ordering) |-> ordering_entry(ordering[i])]

-----------------------------------------------------------------------------
(* core/conditions.py: the condition model *)

\* A constructor returns the object, or the name of the exception it raises
Raise(e) == [raised |-> e]
Raised(r) == r.raised # ""

Digits == {"0", "1", "2", "3", "4", "5", "6", "7", "8", "9"}
Whitespace == {" ", "\t", "\n"}

AllIn(cs, S) == \A i \in 1..Len(cs) : cs[i] \in S

\* ^\d+%$ anchored at the end of cs
MatchPercentWhole(cs) ==
    /\ Len(cs) >= 2
    /\ cs[Len(cs)] = "%"
    /\ AllIn(SubSeq(cs, 1, Len(cs) - 1), Digits)

\* ^[\d<>]+$ anchored at the end of cs
MatchRangeWhole(cs) ==
    /\ Len(cs) >= 1
    /\ AllIn(cs, Digits \cup {"<", ">"})

\* re.match(r"^\d+%$|^[\d<>]+$", value): $ matches at the end of the string
\* and also just before a newline that ends the string
re_match_msm(cs) ==
    LET whole(x) == MatchPercentWhole(x) \/ MatchRangeWhole(x)
    IN  \/ whole(cs)
        \/ /\ Len(cs) >= 1
           /\ cs[Len(cs)] = "\n"
           /\ whole(SubSeq(cs, 1, Len(cs) - 1))

\* TRUE when _validate_minimum_should_match raises ValueError
validate_minimum_should_match_raises(value) ==
    IF value = NoneV THEN FALSE
    ELSE IF IsInt(value) THEN value.int < 0
    ELSE IF IsChars(value) THEN ~re_match_msm(value.chars)
    ELSE FALSE

\* a check of the combinator that accepts every value
ValidCondition_any(c) == TRUE

\* self.condition in ("and", "or")
ValidCondition(c) == c \in {"and", "or"}

ConditionItem(key, method, value, condition) ==
    IF ~ValidCondition(condition) THEN Raise("ValueError")
    ELSE [raised |-> "", key |-> key, method |-> method, value |-> value,
          condition |-> condition]

ConditionGroup(condition, children, minimum_should_match) ==
    IF ~ValidCondition(condition) THEN Raise("ValueError")
    ELSE IF validate_minimum_should_match_raises(minimum_should_match)
    THEN Raise("ValueError")
    ELSE [raised |-> "", type |-> "group", condition |-> condition,
          children |-> children,
          minimum_should_match |-> minimum_should_match]

\* not self.path or not self.path.strip()
PathEmpty(path) == Len(path) = 0 \/ AllIn(path, Whitespace)

valid_score_modes ==
    {StrV("avg"), StrV("max"), StrV("min"), StrV("sum"), StrV("none"), NoneV}

NestedCondition(path, condition, children, score_mode, minimum_should_match, inner_hits) ==
    IF PathEmpty(path) THEN Raise("ValueError")
    ELSE IF ~ValidCondition(condition) THEN Raise("ValueError")
    ELSE IF score_mode \notin valid_score_modes THEN Raise("ValueError")
    ELSE IF validate_minimum_should_match_raises(minimum_should_match)
    THEN Raise("ValueError")
    ELSE [raised |-> "", type |-> "nested", path |-> path,
          condition |-> condition, children |-> children,
          score_mode |-> score_mode,
          minimum_should_match |-> minimum_should_match,
          inner_hits |-> inner_hits]

-----------------------------------------------------------------------------
(* The Q objects of elasticsearch.dsl, as core/conditions.py and            *)
(* builders/dsl.py build and combine them                                   *)

Terms(key, values) == [kind |-> "terms", field |-> key, values |-> values]
\* Q("wildcard", key=f"*{v}*")
Wildcard(key, v) == [kind |-> "wildcard", field |-> key, pattern |-> [pre |-> "*", v |-> v, post |-> "*"]]
Range(key, method, value) == [kind |-> "range", field |-> key, op |-> method, bound |-> value]
Exists(key) == [kind |-> "exists", field |-> key]
MatchNone == [kind |-> "match_none"]

\* Q("bool", must=..., should=..., must_not=..., filter=..., minimum_should_match=...)
Bool(must, should, must_not, filter, msm) ==
    [kind |-> "bool", must |-> must, should |-> should, must_not |-> must_not,
     filter |-> filter, minimum_should_match |-> msm]

IsBool(q) == q.kind = "bool"
IsMatchNone(q) == q.kind = "match_none"

\* Python truth value of a minimum_should_match parameter
Truthy(msm) ==
    IF msm = NoneV THEN FALSE
    ELSE IF IsInt(msm) THEN msm.int # 0
    ELSE Len(msm.chars) > 0

\* not any((q.must, q.must_not, q.filter, getattr(q, "minimum_should_match", None)))
OnlyShould(q) ==
    /\ q.must = <<>>
    /\ q.must_not = <<>>
    /\ q.filter = <<>>
    /\ ~Truthy(q.minimum_should_match)

\* Bool._min_should_match
min_should_match(q) ==
    IF q.minimum_should_match # NoneV THEN q.minimum_should_match
    ELSE IF q.should = <<>> \/ q.must # <<>> \/ q.filter # <<>> THEN IntV(0)
    ELSE IntV(1)

\* Bool.__or__(self, other), other any query
BoolOr(self, other) ==
    IF OnlyShould(self)
    THEN IF IsBool(other) /\ OnlyShould(other)
         THEN [self EXCEPT !.should = self.should \o other.should]
         ELSE [self EXCEPT !.should = Append(self.should, other)]
    ELSE IF IsBool(other) /\ OnlyShould(other)
    THEN [other EXCEPT !.should = Append(other.should, self)]
    ELSE Bool(<<>>, <<self, other>>, <<>>, <<>>, NoneV)

\* One turn of the loop "for qx in (self, other)" of Bool.__and__ on the
\* result q built so far
BoolAndStep(q, qx) ==
    LET m == min_should_match(qx)
    IN  IF Len(qx.should) <= m.int
        THEN [q EXCEPT !.must = q.must \o qx.should]
        ELSE IF q.should = <<>>
        THEN [q EXCEPT !.minimum_should_match = m, !.should = qx.should]
        ELSE IF min_should_match(q) = IntV(0) /\ m = IntV(0)
        THEN [q EXCEPT !.should = q.should \o qx.should]
        ELSE [q EXCEPT !.must = Append(q.must, Bool(<<>>, qx.should, <<>>, <<>>, m))]

\* Bool.__and__ raises when a side's minimum_should_match is not an integer
BoolAndRaises(self, other) ==
    /\ IsBool(other)
    /\ \/ ~IsInt(min_should_match(self))
       \/ ~IsInt(min_should_match(other))

\* Bool.__and__(self, other), other any query
BoolAnd(self, other) ==
    IF IsBool(other)
    THEN LET q0 == [self EXCEPT !.must = self.must \o other.must,
                                !.must_not = self.must_not \o other.must_not,
                                !.filter = self.filter \o other.filter,
                                !.should = <<>>,
                                !.minimum_should_match = NoneV]
         IN  BoolAndStep(BoolAndStep(q0, self), other)
    ELSE LET q1 == IF self.must = <<>> /\ self.filter = <<>> /\ self.should # <<>>
                      /\ self.minimum_should_match = NoneV
                   THEN [self EXCEPT !.minimum_should_match = IntV(1)]
                   ELSE self
         IN  [q1 EXCEPT !.must = Append(q1.must, other)]

\* a | b
Q_or(a, b) ==
    IF IsBool(a) THEN BoolOr(a, b)
    ELSE IF IsMatchNone(a) THEN b
    ELSE IF IsBool(b) THEN BoolOr(b, a)
    ELSE IF IsMatchNone(b) THEN a
    ELSE Bool(<<>>, <<a, b>>, <<>>, <<>>, NoneV)

\* a & b raises
Q_and_raises(a, b) ==
    IF IsBool(a) THEN BoolAndRaises(a, b)
    ELSE FALSE

\* a & b
Q_and(a, b) ==
    IF IsBool(a) THEN BoolAnd(a, b)
    ELSE IF IsMatchNone(a) THEN a
    ELSE IF IsBool(b) THEN BoolAnd(b, a)
    ELSE IF IsMatchNone(b) THEN b
    ELSE Bool(<<a, b>>, <<>>, <<>>, <<>>, NoneV)

\* ~q for the queries the parser negates: a leaf, or Bool(should=queries)
Q_invert(q) ==
    IF ~IsBool(q) THEN Bool(<<>>, <<>>, <<q>>, <<>>, NoneV)
    ELSE IF q.should = <<>> THEN MatchNone
    ELSE Bool(<<>>, <<>>, q.should, <<>>, NoneV)

-----------------------------------------------------------------------------
(* core/conditions.py: DefaultConditionParser *)

AsList(value) == IF IsList(value) THEN value.list ELSE <<value.scalar>>

Wildcards(key, vs) == [i \in 1..Len(vs) |-> Wildcard(key, vs[i])]

\* the include branch: one wildcard, or a bool of should wildcards
parse_include(key, value) ==
    IF IsList(value)
    THEN LET queries == Wildcards(key, value.list)
         IN  IF Len(queries) = 1 THEN queries[1]
             ELSE Bool(<<>>, queries, <<>>, <<>>, NoneV)
    ELSE Wildcard(key, value.scalar)

\* a range branch that hands the value over as it came
parse_range_whole(key, method, value) == Range(key, method, value)

\* the range branch: the first element of a non-empty list, else the value
parse_range(key, method, value) ==
    IF IsList(value) /\ value.list # <<>>
    THEN Range(key, method, ScalarV(value.list[1]))
    ELSE Range(key, method, value)

\* a parse that drops an exists item coming with a value
parse_exists_needs_no_value(condition) ==
    LET key == condition.key
        method == condition.method
        value == condition.value
    IN  IF method = "eq" THEN Terms(key, AsList(value))
        ELSE IF method = "neq" THEN Q_invert(Terms(key, AsList(value)))
        ELSE IF method = "include" THEN parse_include(key, value)
        ELSE IF method = "exclude" THEN Q_invert(parse_include(key, value))
        ELSE IF method \in {"gte", "gt", "lte", "lt"} THEN parse_range(key, method, value)
        ELSE IF method = "exists" THEN (IF value \in {NoneV, ListV(<<>>)} THEN Exists(key) ELSE NoneV)
        ELSE IF method = "nexists" THEN Q_invert(Exists(key))
        ELSE Terms(key, AsList(value))

\* a parse that skips an item of an unknown method
parse_unknown_skipped(condition) ==
    LET key == condition.key
        method == condition.method
        value == condition.value
    IN  IF method = "eq" THEN Terms(key, AsList(value))
        ELSE IF method = "neq" THEN Q_invert(Terms(key, AsList(value)))
        ELSE IF method = "include" THEN parse_include(key, value)
        ELSE IF method = "exclude" THEN Q_invert(parse_include(key, value))
        ELSE IF method \in {"gte", "gt", "lte", "lt"} THEN parse_range(key, method, value)
        ELSE IF method = "exists" THEN Exists(key)
        ELSE IF method = "nexists" THEN Q_invert(Exists(key))
        ELSE NoneV

\* DefaultConditionParser.parse
parse(condition) ==
    LET key == condition.key
        method == condition.method
        value == condition.value
    IN  IF method = "eq" THEN Terms(key, AsList(value))
        ELSE IF method = "neq" THEN Q_invert(Terms(key, AsList(value)))
        ELSE IF method = "include" THEN parse_include(key, value)
        ELSE IF method = "exclude" THEN Q_invert(parse_include(key, value))
        ELSE IF method \in {"gte", "gt", "lte", "lt"} THEN parse_range(key, method, value)
        ELSE IF method = "exists" THEN Exists(key)
        ELSE IF method = "nexists" THEN Q_invert(Exists(key))
        ELSE Terms(key, AsList(value))

\* a combination that passes minimum_should_match under "must" too
combine_children_msm_always(condition, queries, minimum_should_match) ==
    IF condition = "or"
    THEN Bool(<<>>, queries, <<>>, <<>>, minimum_should_match)
    ELSE Bool(queries, <<>>, <<>>, <<>>, minimum_should_match)

\* "should" with the minimum_should_match the user set, or "must"
combine_children(condition, queries, minimum_should_match) ==
    IF condition = "or"
    THEN Bool(<<>>, queries, <<>>, <<>>, minimum_should_match)
    ELSE Bool(queries, <<>>, <<>>, <<>>, NoneV)

\* a wrapper that passes score_mode whether it is set or not
nested_query_score_always(nested, inner_query) ==
    [kind |-> "nested", path |-> nested.path, query |-> inner_query,
     score_mode |-> nested.score_mode]
    @@ (IF nested.inner_hits # NoneV THEN [inner_hits |-> nested.inner_hits] ELSE <<>>)

\* Q("nested", **nested_params): score_mode and inner_hits only when set
nested_query(nested, inner_query) ==
    [kind |-> "nested", path |-> nested.path, query |-> inner_query]
    @@ (IF nested.score_mode # NoneV THEN [score_mode |-> nested.score_mode] ELSE <<>>)
    @@ (IF nested.inner_hits # NoneV THEN [inner_hits |-> nested.inner_hits] ELSE <<>>)

RECURSIVE parse_children(_)

\* a parse_group without the two "return None" of an empty group
parse_group_keeps_empty(group) ==
    combine_children(group.condition, parse_children(group.children), group.minimum_should_match)

\* DefaultConditionParser.parse_group: None, or the bool node of the children
parse_group(group) ==
    IF group.children = <<>> THEN NoneV
    ELSE LET child_queries == parse_children(group.children)
         IN  IF child_queries = <<>> THEN NoneV
             ELSE combine_children(group.condition, child_queries, group.minimum_should_match)

\* DefaultConditionParser.parse_nested: None, or the nested wrapper
parse_nested(nested) ==
    IF nested.children = <<>> THEN NoneV
    ELSE LET inner_queries == parse_children(nested.children)
         IN  IF inner_queries = <<>> THEN NoneV
             ELSE nested_query(nested, combine_children(nested.condition, inner_queries, nested.minimum_should_match))

\* <<q>> when q is not None, <<>> when it is
NotNone(q) == IF q = NoneV THEN <<>> ELSE <<q>>

\* a dispatch that takes every unknown type for an item
child_type_of_item_else(child_dict) ==
    IF Get(child_dict, "type", "item") \in {"group", "nested"}
    THEN child_dict.type
    ELSE "item"

\* child_dict.get("type", "item")
child_type_of(child_dict) == Get(child_dict, "type", "item")

\* One turn of the loop of _parse_children: the queries the child appends
\* (none when it is skipped, raises inside the try, or parses to None)
parse_child(child_dict) ==
    LET child_type == child_type_of(child_dict)
    IN  IF child_type = "item"
        THEN IF "key" \notin DOMAIN child_dict \/ "value" \notin DOMAIN child_dict
             THEN <<>>
             ELSE LET condition == ConditionItem(child_dict.key, Get(child_dict, "method", "eq"), child_dict.value, Get(child_dict, "condition", "and"))
                  IN  IF Raised(condition) THEN <<>> ELSE NotNone(parse(condition))
        ELSE IF child_type = "group"
        THEN LET child_group == ConditionGroup(Get(child_dict, "condition", "and"), Get(child_dict, "children", <<>>), Get(child_dict, "minimum_should_match", NoneV))
             IN  IF Raised(child_group) THEN <<>> ELSE NotNone(parse_group(child_group))
        ELSE IF child_type = "nested"
        THEN IF "path" \notin DOMAIN child_dict
             THEN <<>>
             ELSE LET nested == NestedCondition(child_dict.path, Get(child_dict, "condition", "and"), Get(child_dict, "children", <<>>), Get(child_dict, "score_mode", NoneV), Get(child_dict, "minimum_should_match", NoneV), Get(child_dict, "inner_hits", NoneV))
                  IN  IF Raised(nested) THEN <<>> ELSE NotNone(parse_nested(nested))
        ELSE <<>>

\* DefaultConditionParser._parse_children
parse_children(children) ==
    IF children = <<>> THEN <<>>
    ELSE parse_child(Head(children)) \o parse_children(Tail(children))

-----------------------------------------------------------------------------
(* builders/dsl.py: DslQueryBuilder *)

\* One turn of the loop of _apply_conditions, up to "if q is None: continue":
\* <<q>>, or <<>> when the node is skipped
cond_q(cond) ==
    LET cond_type == Get(cond, "type", "item")
    IN  IF cond_type = "item"
        THEN IF "key" \notin DOMAIN cond \/ "value" \notin DOMAIN cond
             THEN <<>>
             ELSE LET condition_item == ConditionItem(cond.key, Get(cond, "method", "eq"), cond.value, Get(cond, "condition", "and"))
                  IN  IF Raised(condition_item) THEN <<>> ELSE NotNone(parse(condition_item))
        ELSE IF cond_type = "group"
        THEN LET condition_group == ConditionGroup(Get(cond, "condition", "and"), Get(cond, "children", <<>>), Get(cond, "minimum_should_match", NoneV))
             IN  IF Raised(condition_group) THEN <<>> ELSE NotNone(parse_group(condition_group))
        ELSE IF cond_type = "nested"
        THEN IF "path" \notin DOMAIN cond
             THEN <<>>
             ELSE LET nested_condition == NestedCondition(cond.path, Get(cond, "condition", "and"), Get(cond, "children", <<>>), Get(cond, "score_mode", NoneV), Get(cond, "minimum_should_match", NoneV), Get(cond, "inner_hits", NoneV))
                  IN  IF Raised(nested_condition) THEN <<>> ELSE NotNone(parse_nested(nested_condition))
        ELSE <<>>

\* "combine conditions": the first usable q starts combined_q, a later one
\* is joined with | when its dict says "or" and with & otherwise
combine(combined_q, cond, q) ==
    IF combined_q = NoneV THEN q
    ELSE IF Get(cond, "condition", "") = "or" THEN Q_or(combined_q, q)
    ELSE Q_and(combined_q, q)

combine_raises(combined_q, cond, q) ==
    /\ combined_q # NoneV
    /\ Get(cond, "condition", "") # "or"
    /\ Q_and_raises(combined_q, q)

RECURSIVE conditions_loop(_, _)

\* the loop of _apply_conditions over the rest of the list: the final
\* combined_q, or the exception that leaves the loop
conditions_loop(conds, combined_q) ==
    IF conds = <<>> THEN [raised |-> "", combined_q |-> combined_q]
    ELSE LET cond == Head(conds)
             qs == cond_q(cond)
         IN  IF qs = <<>> THEN conditions_loop(Tail(conds), combined_q)
             ELSE IF combine_raises(combined_q, cond, qs[1]) THEN Raise("ValueError")
             ELSE conditions_loop(Tail(conds), combine(combined_q, cond, qs[1]))

\* Q("query_string", query=...)
Q_query_string(query) == [kind |-> "query_string", text |-> query]

\* Search.query(q): the query when the search has none, else query & q
search_query(search, q) ==
    [search EXCEPT !.query = IF search.query = NoneV THEN q ELSE Q_and(search.query, q)]

\* Search.filter(q): query(Bool(filter=[q]))
search_filter(search, q) == search_query(search, Bool(<<>>, <<>>, <<>>, <<q>>, NoneV))

\* the Search the factory returns
NewSearch == [query |-> NoneV]

\* an _apply_conditions that attaches a filter even without a combined query
apply_conditions_always_filters(search, conds) ==
    LET r == conditions_loop(conds, NoneV)
    IN  IF Raised(r) THEN r
        ELSE IF r.combined_q # NoneV
        THEN [raised |-> "", search |-> search_filter(search, r.combined_q)]
        ELSE [raised |-> "", search |-> search_filter(search, Bool(<<>>, <<>>, <<>>, <<>>, NoneV))]

\* DslQueryBuilder._apply_conditions
apply_conditions(search, conds) ==
    IF conds = <<>> THEN [raised |-> "", search |-> search]
    ELSE LET r == conditions_loop(conds, NoneV)
         IN  IF Raised(r) THEN r
             ELSE IF r.combined_q # NoneV
             THEN [raised |-> "", search |-> search_filter(search, r.combined_q)]
             ELSE [raised |-> "", search |-> search]

\* self._page and self._page_size as __init__ and clear() set them
DefaultPage == 1
DefaultPageSize == 10

\* search[start : stop]
search_slice(search, start, stop) == search @@ [from |-> start, size |-> stop - start]

Max(a, b) == IF a >= b THEN a ELSE b

\* a pagination that keeps the page it is given
clamp_page_none(page) == page

\* DslQueryBuilder.pagination: the values stored
clamp_page(page) == Max(1, page)
clamp_page_size(page_size) == Max(0, page_size)

\* Search.sort(*keys): "-name" becomes {name: {"order": "desc"}}, any other
\* string is kept
sort_key(k) ==
    IF startswith_minus(k)
    THEN [name |-> Tail(k), order |-> "desc"]
    ELSE [name |-> k, order |-> ""]

search_sort(search, keys) ==
    [sort |-> [i \in 1..Len(keys) |-> sort_key(keys[i])]] @@ search

\* Search.to_dict(): "query", "sort" and "aggs" are present only when set
to_dict(search) ==
    LET unset == (IF search.query = NoneV THEN {"query"} ELSE {})
                 \cup {k \in {"sort", "aggs"} \cap DOMAIN search : search[k] = <<>>}
    IN  [k \in DOMAIN search \ unset |-> search[k]]

\* Search.update_from_dict(d): query, sort and non-empty aggs replace the
\* search's own, every other key goes to the extra parameters
update_from_dict(search, d) ==
    LET taken == {k \in DOMAIN d : ~(k = "aggs" /\ d[k] = <<>>)}
    IN  [k \in DOMAIN search \cup taken |-> IF k \in taken THEN d[k] ELSE search[k]]

-----------------------------------------------------------------------------
(* builders/dsl.py: aggregations.  An aggregation container is the list   *)
(* of its entries [name, value] in the order of the dict.                  *)

NoDict == [k \in {} |-> 0]

\* the characters an aggregation name must not contain
invalid_chars == {"\"", ".", " "}

\* a validation that only rejects the empty name
validate_aggregation_name_raises_empty_only(name) == name = <<>>

\* TRUE when _validate_aggregation_name raises ValueError
validate_aggregation_name_raises(name) ==
    \/ name = <<>>
    \/ \E i \in 1..Len(name) : name[i] \in invalid_chars

\* Python truth value of an optional field name
FieldSet(field) == field # NoneV /\ field.str # ""

\* the entry add_aggregation appends to self._aggregations
aggregation_entry(a) ==
    [name |-> a.name,
     type |-> a.agg_type,
     field |-> IF FieldSet(a.field) THEN StrV(get_es_field(a.field.str, TRUE)) ELSE NoneV,
     kwargs |-> a.kwargs,
     sub_aggregations |-> IF a.sub_aggregations # NoneV /\ a.sub_aggregations.list # <<>>
                          THEN a.sub_aggregations
                          ELSE NoneV]

\* d[name] = value on an ordered dict
dict_set(d, name, value) ==
    IF \E i \in 1..Len(d) : d[i].name = name
    THEN [i \in 1..Len(d) |-> IF d[i].name = name THEN [name |-> name, value |-> value] ELSE d[i]]
    ELSE Append(d, [name |-> name, value |-> value])

\* an update that replaces the dict by the other one
dict_update_replace(d, other) == other

RECURSIVE dict_update(_, _)

\* d.update(other)
dict_update(d, other) ==
    IF other = <<>> THEN d
    ELSE dict_update(dict_set(d, Head(other).name, Head(other).value), Tail(other))

reserved_keys == {"name", "type", "field", "sub_aggregations", "kwargs"}

\* a configuration of a sub-aggregation whose field is looked up for filtering
sub_agg_config_for_filter(sub_agg) ==
    [name |-> sub_agg.name,
     type |-> sub_agg.type,
     field |-> IF FieldSet(Get(sub_agg, "field", NoneV))
               THEN StrV(get_es_field(sub_agg.field.str, FALSE))
               ELSE NoneV,
     kwargs |-> [k \in DOMAIN sub_agg \ {"name", "type", "field", "sub_aggregations"} |-> sub_agg[k]],
     sub_aggregations |-> Get(sub_agg, "sub_aggregations", NoneV)]

\* sub_agg_config of _apply_single_aggregation
sub_agg_config(sub_agg) ==
    [name |-> sub_agg.name,
     type |-> sub_agg.type,
     field |-> IF FieldSet(Get(sub_agg, "field", NoneV))
               THEN StrV(get_es_field(sub_agg.field.str, TRUE))
               ELSE NoneV,
     kwargs |-> [k \in DOMAIN sub_agg \ {"name", "type", "field", "sub_aggregations"} |-> sub_agg[k]],
     sub_aggregations |-> Get(sub_agg, "sub_aggregations", NoneV)]

\* the parameters parent_aggs.bucket(name, agg_type, ...) is called with
bucket_params(agg) ==
    LET kwargs0 == Get(agg, "kwargs", NoDict)
        kwargs == IF DOMAIN kwargs0 = {}
                  THEN [k \in DOMAIN agg \ reserved_keys |-> agg[k]]
                  ELSE kwargs0
        field == Get(agg, "field", NoneV)
    IN  IF agg.type = "top_hits" THEN kwargs
        ELSE IF FieldSet(field) THEN [field |-> field.str] @@ kwargs
        ELSE kwargs

RECURSIVE apply_single_aggregation(_, _)
RECURSIVE apply_sub_aggregations(_, _)

\* the loop over sub_aggregations of _apply_single_aggregation
apply_sub_aggregations(agg_obj_aggs, sub_aggregations) ==
    IF sub_aggregations = <<>> THEN agg_obj_aggs
    ELSE apply_sub_aggregations(
             apply_single_aggregation(agg_obj_aggs, sub_agg_config(Head(sub_aggregations))),
             Tail(sub_aggregations))

\* DslQueryBuilder._apply_single_aggregation: the container of the parent
\* after the call
apply_single_aggregation(parent_aggs, agg) ==
    LET sub_aggregations == Get(agg, "sub_aggregations", NoneV)
        subs == IF sub_aggregations = NoneV THEN <<>> ELSE sub_aggregations.list
    IN  dict_set(parent_aggs, agg.name,
                 [type |-> agg.type,
                  params |-> bucket_params(agg),
                  aggs |-> apply_sub_aggregations(<<>>, subs)])

\* current_dict after aggs.update(raw_agg) and current_dict["aggs"] = aggs
merge_aggs(current_dict, raw_agg) ==
    [aggs |-> dict_update(Get(current_dict, "aggs", <<>>), raw_agg)] @@ current_dict

\* an _apply_raw_aggregation that rebuilds the search from the aggregations
apply_raw_aggregation_aggs_only(search, raw_agg) ==
    [query |-> NoneV, aggs |-> merge_aggs(to_dict(search), raw_agg).aggs]

\* DslQueryBuilder._apply_raw_aggregation
apply_raw_aggregation(search, raw_agg) ==
    update_from_dict(search, merge_aggs(to_dict(search), raw_agg))

RECURSIVE apply_structured(_, _)

\* the first loop of _apply_aggregations, on search.aggs
apply_structured(aggs, aggregations) ==
    IF aggregations = <<>> THEN aggs
    ELSE apply_structured(apply_single_aggregation(aggs, Head(aggregations)), Tail(aggregations))

RECURSIVE apply_raw(_, _)

\* the second loop of _apply_aggregations
apply_raw(search, raw_aggregations) ==
    IF raw_aggregations = <<>> THEN search
    ELSE apply_raw(apply_raw_aggregation(search, Head(raw_aggregations)), Tail(raw_aggregations))

\* the search whose aggs container holds aggs
with_aggs(search, aggs) == IF aggs = <<>> THEN search ELSE [aggs |-> aggs] @@ search

\* DslQueryBuilder._apply_aggregations
apply_aggregations(search, aggregations, raw_aggregations) ==
    apply_raw(with_aggs(search, apply_structured(<<>>, aggregations)), raw_aggregations)

\* build(): the sort, when an ordering is set, and the slice
build_window(search, ordering, page, page_size) ==
    search_slice(IF ordering # <<>> THEN search_sort(search, ordering) ELSE search,
                 (page - 1) * page_size, (page - 1) * page_size + page_size)

\* build() from the sort on, r the outcome of _apply_conditions
build_after_conditions(r, ordering, page, page_size, aggregations, raw_aggregations) ==
    IF Raised(r) THEN r
    ELSE [r EXCEPT !.search = apply_aggregations(build_window(r.search, ordering, page, page_size), aggregations, raw_aggregations)]

RECURSIVE lstrip(_)
RECURSIVE rstrip(_)

lstrip(cs) == IF cs # <<>> /\ Head(cs) \in Whitespace THEN lstrip(Tail(cs)) ELSE cs
rstrip(cs) == IF cs # <<>> /\ cs[Len(cs)] \in Whitespace THEN rstrip(SubSeq(cs, 1, Len(cs) - 1)) ELSE cs

\* an _apply_query_string that attaches the string as it was registered
strip_none(cs) == cs

\* str.strip()
strip(cs) == rstrip(lstrip(cs))

\* DslQueryBuilder.query_string: the string stored, query_string or ""
query_string_or_empty(query_string) == IF query_string = NoneV THEN <<>> ELSE query_string.chars

\* the query attached for a stripped string, without a transformer
attach_query_string(search, stripped) ==
    IF stripped = <<>> THEN search ELSE search_query(search, Q_query_string(stripped))

\* DslQueryBuilder._apply_query_string
apply_query_string(search, query_string) == attach_query_string(search, strip(query_string))

RECURSIVE apply_extra_filters(_, _)

\* build(): for q in self._extra_filters: search = search.filter(q)
apply_extra_filters(search, extra_filters) ==
    IF extra_filters = <<>> THEN search
    ELSE apply_extra_filters(search_filter(search, Head(extra_filters)), Tail(extra_filters))

\* build() from the query string to the extra filters, r the outcome of
\* _apply_conditions
build_query(r, query_string, extra_filters) ==
    IF Raised(r) THEN r
    ELSE [r EXCEPT !.search = apply_extra_filters(apply_query_string(r.search, query_string), extra_filters)]

\* DslQueryBuilder.build: the Search returned, or the exception raised
DslQueryBuilder_build(conds, query_string, extra_filters, ordering, page, page_size, aggregations, raw_aggregations) ==
    build_after_conditions(build_query(apply_conditions(NewSearch, conds), query_string, extra_filters),
                           ordering, page, page_size, aggregations, raw_aggregations)

\* build() of a builder without query string and extra filters
builder_build(conds, ordering, page, page_size, aggregations, raw_aggregations) ==
    DslQueryBuilder_build(conds, <<>>, <<>>, ordering, page, page_size, aggregations, raw_aggregations)

\* build() of a builder on which only conditions() was called
build(conds) == builder_build(conds, <<>>, DefaultPage, DefaultPageSize, <<>>, <<>>)

-----------------------------------------------------------------------------
(* The caller *)

NoDoc == [nodoc |-> TRUE]

NoMade == [nomade |-> TRUE]

NoArgs == [noargs |-> TRUE]

MaxLen == 3        \* longest top-level condition list of TopLists
MaxChildren == 2   \* longest children list of DeepNodes

\* the sequences over S of length at most n
SeqUpTo(S, n) == UNION {[1..k -> S] : k \in 0..n}

Item(key, method, value) == [type |-> "item", key |-> key, method |-> method, value |-> value]
With(header, children) == header @@ [children |-> children]
Tagged(cond, condition) == cond @@ [condition |-> condition]

\* items that compile
Ia == Item("a", "eq", ListV(<<1>>))
Ibor == [key |-> "b", method |-> "gt", value |-> ListV(<<3, 4>>), condition |-> "or"]
Icand == Tagged(Item("c", "neq", ScalarV(2)), "and")
Id == Item("d", "include", ListV(<<5, 6>>))
Ie == Tagged(Item("e", "exists", ListV(<<>>)), "or")
\* items missing a required field, of an unknown type, invalid by construction
Mnokey == [type |-> "item", method |-> "eq", value |-> ListV(<<1>>)]
Mnoval == [type |-> "item", key |-> "a", method |-> "eq"]
Munknown == [type |-> "unknown", key |-> "a", value |-> ListV(<<1>>)]
Xcond == Tagged(Item("a", "eq", ListV(<<1>>)), "xor")

Comments == <<"c", "o", "m", "m", "e", "n", "t", "s">>

\* groups and nested nodes, without their children
Gand == [type |-> "group", condition |-> "and"]
Gor == [type |-> "group", condition |-> "or"]
Gdefault == [type |-> "group"]
Gor2 == [type |-> "group", condition |-> "or", minimum_should_match |-> IntV(2)]
Gand1 == [type |-> "group", condition |-> "and", minimum_should_match |-> IntV(1)]
Gpercent == [type |-> "group", condition |-> "or", minimum_should_match |-> CharsV(<<"5", "0", "%">>)]
Nand == [type |-> "nested", path |-> Comments, condition |-> "and"]
Nor == [type |-> "nested", path |-> Comments, condition |-> "or", score_mode |-> StrV("avg"), minimum_should_match |-> IntV(1), inner_hits |-> DictV([size |-> 3])]
Nhits == [type |-> "nested", path |-> <<" ", "t", " ">>, inner_hits |-> DictV([size |-> 0])]
Mnopath == [type |-> "nested", condition |-> "and"]
Xgcond == [type |-> "group", condition |-> "xor"]
Xgneg == [type |-> "group", condition |-> "or", minimum_should_match |-> IntV(-1)]
Xgformat == [type |-> "group", condition |-> "and", minimum_should_match |-> CharsV(<<"5", "x">>)]
Xnempty == [type |-> "nested", path |-> <<>>, condition |-> "and"]
Xnspace == [type |-> "nested", path |-> <<" ", " ">>, condition |-> "or"]
Xnscore == [type |-> "nested", path |-> Comments, score_mode |-> StrV("median")]

Items == {Ia, Ibor, Icand, Mnokey, Mnoval, Munknown, Xcond}

Headers == {Gand, Gor, Gdefault, Gor2, Gand1, Gpercent, Nand, Nor, Nhits, Mnopath, Xgcond, Xgneg, Xgformat, Xnempty, Xnspace, Xnscore}

\* the nodes of the lists that exercise the top-level combination
TopNodes ==
    {Ia, Ibor, Icand, Mnokey, Xcond,
     With(Gor, <<Id, Ie>>), With(Gor2, <<Ia, Ibor>>), With(Gand, <<Ia, Icand>>),
     With(Gpercent, <<Ia, Ibor>>), With(Nand, <<Id>>), With(Gand, <<>>),
     With(Xnempty, <<Ia>>)}

TopLists == SeqUpTo(TopNodes, MaxLen)

\* groups and nested nodes used as children
InnerNodes ==
    {With(Gor2, <<Ia, Ibor>>), With(Nor, <<Ia>>), Gand, With(Gdefault, <<Mnokey>>),
     With(Xgcond, <<Ia>>), With(Mnopath, <<Ia>>),
     With(Gand, <<With(Nand, <<Ibor, Munknown>>)>>)}

\* the nodes of the lists that exercise the recursion
DeepNodes == {With(h, ch) : h \in Headers, ch \in SeqUpTo(Items \cup InnerNodes, MaxChildren)}

DeepLists == {<<n>> : n \in DeepNodes} \cup {<<Icand, n>> : n \in DeepNodes}

CondLists == TopLists \cup DeepLists

NeverPaged == [state |-> "never", page |-> 0, page_size |-> 0]

\* the state __init__ gives the builder
Fresh ==
    /\ self_conditions = <<>>
    /\ self_query_string = <<>>
    /\ self_extra_filters = <<>>
    /\ self_ordering = <<>>
    /\ self_page = DefaultPage
    /\ self_page_size = DefaultPageSize
    /\ self_aggregations = <<>>
    /\ self_raw_aggregations = <<>>
    /\ paged = NeverPaged

\* ConnectionConfig(), as far as a client shows it
ConnectionConfig(request_timeout) == [request_timeout |-> request_timeout]
DefaultRequestTimeout == 30

\* a new QueryStringBuilder, a new ESClientFactory with no connection_config,
\* and no bulk_execute call yet
NoCalls ==
    /\ self_filters = <<>>
    /\ self_connection_config = ConnectionConfig(DefaultRequestTimeout)
    /\ self_clients = <<>>
    /\ created = <<>>
    /\ closed_all = 0
    /\ bulk_result = NoneV
    /\ pc = "idle"
    /\ batch_start = 1
    /\ actions = <<>>
    /\ attempt = 0

\* the above, and condition lists taken by value
NoPeers ==
    /\ NoCalls
    /\ heap = <<>>
    /\ self_conditions_at = 0

Init ==
    /\ input \in CondLists
    /\ given = <<>>
    /\ Fresh
    /\ last = "init"
    /\ doc = NoDoc
    /\ args = NoArgs
    /\ made = NoMade
    /\ NoPeers

\* builder.conditions(input)
Conditions ==
    /\ self_conditions' = transform_condition_fields(input)
    /\ given' = input
    /\ last' = "conditions"
    /\ UNCHANGED <<input, doc, args, peers, made, others>>

\* a build() that uses up the registered raw fragments
Build_consuming ==
    /\ doc' = DslQueryBuilder_build(self_conditions, self_query_string, self_extra_filters, self_ordering, self_page, self_page_size, self_aggregations, self_raw_aggregations)
    /\ self_raw_aggregations' = <<>>
    /\ last' = "build"
    /\ UNCHANGED <<input, given, self_conditions, args, peers, made, self_ordering, paging, self_aggregations, filtering>>

\* a build() that returns the document of the first build
Build_cached ==
    /\ doc' = IF doc = NoDoc
              THEN DslQueryBuilder_build(self_conditions, self_query_string, self_extra_filters, self_ordering, self_page, self_page_size, self_aggregations, self_raw_aggregations)
              ELSE doc
    /\ last' = "build"
    /\ UNCHANGED <<input, given, self_conditions, args, peers, made, others>>

\* builder.build()
Build ==
    /\ doc' = DslQueryBuilder_build(self_conditions, self_query_string, self_extra_filters, self_ordering, self_page, self_page_size, self_aggregations, self_raw_aggregations)
    /\ last' = "build"
    /\ UNCHANGED <<input, given, self_conditions, args, peers, made, others>>

\* build() called again with no builder call since the last build()
Rebuild ==
    /\ last \in {"build", "rebuild"}
    /\ doc' = DslQueryBuilder_build(self_conditions, self_query_string, self_extra_filters, self_ordering, self_page, self_page_size, self_aggregations, self_raw_aggregations)
    /\ last' = "rebuild"
    /\ UNCHANGED <<input, given, self_conditions, args, peers, made, others>>

\* a clear() that keeps the query string and the extra filters
Clear_keeps_filtering ==
    /\ self_conditions' = <<>>
    /\ self_ordering' = <<>>
    /\ self_page' = DefaultPage
    /\ self_page_size' = DefaultPageSize
    /\ self_aggregations' = <<>>
    /\ self_raw_aggregations' = <<>>
    /\ given' = <<>>
    /\ paged' = IF paged.state = "never" THEN paged ELSE [paged EXCEPT !.state = "cleared"]
    /\ last' = "clear"
    /\ UNCHANGED <<input, doc, args, peers, made, filtering>>

\* builder.clear()
Clear ==
    /\ self_conditions' = <<>>
    /\ self_query_string' = <<>>
    /\ self_extra_filters' = <<>>
    /\ self_ordering' = <<>>
    /\ self_page' = DefaultPage
    /\ self_page_size' = DefaultPageSize
    /\ self_aggregations' = <<>>
    /\ self_raw_aggregations' = <<>>
    /\ given' = <<>>
    /\ paged' = IF paged.state = "never" THEN paged ELSE [paged EXCEPT !.state = "cleared"]
    /\ last' = "clear"
    /\ UNCHANGED <<input, doc, args, peers, made>>

Next == Conditions \/ Build \/ Clear

Spec == Init /\ [][Next]_vars

-----------------------------------------------------------------------------
(* A direct caller of the constructors of core/conditions.py *)

MaxMsmLen == 3     \* longest minimum_should_match string tried

Combinators == {"and", "or", "xor", "AND"}

MsmChars == {"5", "%", "<", "x", "\n"}

MsmValues ==
    {NoneV, IntV(-1), IntV(0), IntV(2)}
    \cup {CharsV(cs) : cs \in SeqUpTo(MsmChars, MaxMsmLen)}

Paths == {<<>>, <<" ">>, <<" ", "\t">>, Comments, <<" ", "t", " ">>}

ScoreModes == {NoneV, StrV("avg"), StrV("none"), StrV("median"), StrV("")}

\* the keyword arguments a caller may hold
CtorArgs ==
    [path : Paths, condition : Combinators, score_mode : ScoreModes,
     minimum_should_match : MsmValues]

\* ConditionGroup(condition=..., children=[], minimum_should_match=...)
ConstructGroup ==
    /\ made' = [call |-> "ConditionGroup",
                result |-> ConditionGroup(args.condition, <<>>, args.minimum_should_match)]
    /\ UNCHANGED <<input, given, self_conditions, last, doc, args, peers, others>>

\* NestedCondition(path=..., condition=..., children=[], score_mode=...,
\* minimum_should_match=...)
ConstructNested ==
    /\ made' = [call |-> "NestedCondition",
                result |-> NestedCondition(args.path, args.condition, <<>>, args.score_mode, args.minimum_should_match, NoneV)]
    /\ UNCHANGED <<input, given, self_conditions, last, doc, args, peers, others>>

NextCtor == ConstructGroup \/ ConstructNested

InitCtor ==
    /\ input = <<>>
    /\ given = <<>>
    /\ Fresh
    /\ last = "init"
    /\ doc = NoDoc
    /\ args \in CtorArgs
    /\ made = NoMade
    /\ NoPeers

SpecCtor == InitCtor /\ [][NextCtor]_vars

-----------------------------------------------------------------------------
(* A direct caller of the FieldMapper *)

MaxOrderLen == 2   \* longest ordering list tried

Names == {"a", "b", "c", "n", "z", "x", "b.keyword", ""}

OrderEntries ==
    {<<"a">>, <<"-", "a">>, <<"n">>, <<"-", "n">>, <<"z">>, <<"-", "x">>, <<"x">>,
     <<"-">>, <<>>, <<"-", "-", "a">>}

Orderings == SeqUpTo(OrderEntries, MaxOrderLen)

MapperArgs == [field : Names, for_agg : BOOLEAN, ordering : Orderings]

\* mapper.get_es_field(field, for_agg)
GetEsField ==
    /\ made' = [call |-> "get_es_field",
                result |-> [name |-> get_es_field(args.field, args.for_agg)]]
    /\ UNCHANGED <<input, given, self_conditions, last, doc, args, peers, others>>

\* mapper.transform_ordering_fields(ordering)
TransformOrdering ==
    /\ made' = [call |-> "transform_ordering_fields",
                result |-> [ordering |-> transform_ordering_fields(args.ordering)]]
    /\ UNCHANGED <<input, given, self_conditions, last, doc, args, peers, others>>

NextFields == GetEsField \/ TransformOrdering

InitFields ==
    /\ input = <<>>
    /\ given = <<>>
    /\ Fresh
    /\ last = "init"
    /\ doc = NoDoc
    /\ args \in MapperArgs
    /\ made = NoMade
    /\ NoPeers

SpecFields == InitFields /\ [][NextFields]_vars

-----------------------------------------------------------------------------
(* A caller of the builder's setters: conditions, ordering, pagination and *)
(* raw aggregation fragments                                               *)

MaxRaw == 2

TermsAgg(field) == [type |-> "terms", params |-> [field |-> field], aggs |-> <<>>]
AvgAgg(field) == [type |-> "avg", params |-> [field |-> field], aggs |-> <<>>]
Fragment1 == <<[name |-> <<"by_status">>, value |-> TermsAgg("status")]>>
Fragment2 == <<[name |-> <<"by_status">>, value |-> TermsAgg("level")], [name |-> <<"avg_x">>, value |-> AvgAgg("x")]>>
Fragments == <<Fragment1, Fragment2>>

PageArgs ==
    {<<[page |-> 0, page_size |-> 0], [page |-> 2, page_size |-> 20]>>,
     <<[page |-> -1, page_size |-> -5], [page |-> 0, page_size |-> 7]>>}

DocOrderings == {<<<<"-", "a">>>>, <<<<"n">>, <<"-", "x">>>>}

DocArgs == [ordering : DocOrderings, pages : PageArgs, fragments : {Fragments}]

Ordering ==
    /\ self_ordering' = transform_ordering_fields(args.ordering)
    /\ last' = "ordering"
    /\ UNCHANGED <<input, given, self_conditions, doc, args, peers, made, paging, aggregating, filtering>>

Pagination ==
    \E i \in DOMAIN args.pages :
        /\ self_page' = clamp_page(args.pages[i].page)
        /\ self_page_size' = clamp_page_size(args.pages[i].page_size)
        /\ paged' = [state |-> "set", page |-> args.pages[i].page, page_size |-> args.pages[i].page_size]
        /\ last' = "pagination"
        /\ UNCHANGED <<input, given, self_conditions, self_ordering, doc, args, peers, made, aggregating, filtering>>

AddAggregationRaw ==
    \E i \in DOMAIN args.fragments :
        /\ Len(self_raw_aggregations) < MaxRaw
        /\ self_raw_aggregations' = Append(self_raw_aggregations, args.fragments[i])
        /\ last' = "add_aggregation_raw"
        /\ UNCHANGED <<input, given, self_conditions, self_ordering, self_aggregations, doc, args, peers, made, paging, filtering>>

NextDoc == Conditions \/ Ordering \/ Pagination \/ AddAggregationRaw \/ Build \/ Rebuild \/ Clear

InitDoc ==
    /\ input = <<Ia>>
    /\ given = <<>>
    /\ Fresh
    /\ last = "init"
    /\ doc = NoDoc
    /\ args \in DocArgs
    /\ made = NoMade
    /\ NoPeers

SpecDoc == InitDoc /\ [][NextDoc]_vars

-----------------------------------------------------------------------------
(* A caller of the aggregation methods *)

MaxAggs == 2

AggCall(name, agg_type, field, kwargs, sub_aggregations) ==
    [name |-> name, agg_type |-> agg_type, field |-> field, kwargs |-> kwargs, sub_aggregations |-> sub_aggregations]

\* sub-aggregation dicts, parameters at top level
SubAvg == [name |-> <<"avg_n">>, type |-> "avg", field |-> StrV("n")]
SubTop == [name |-> <<"top">>, type |-> "top_hits", field |-> StrV("a"), size |-> 3]
SubDeep == [name |-> <<"deep", ".", "er">>, type |-> "max", field |-> StrV("k")]
SubBad == [name |-> <<"bad", " ", "name">>, type |-> "terms", field |-> StrV("z"), sub_aggregations |-> ListV(<<SubDeep, SubAvg>>)]

ByStatus == AggCall(<<"by_status">>, "terms", StrV("a"), [size |-> 10], ListV(<<SubAvg, SubTop>>))
AggX == AggCall(<<"agg_x">>, "avg", StrV("x"), NoDict, NoneV)
Hits == AggCall(<<"hits">>, "top_hits", StrV("a"), [size |-> 1], ListV(<<>>))
ByLevel == AggCall(<<"by_status">>, "terms", StrV("k"), NoDict, ListV(<<SubBad>>))
NoName == AggCall(<<>>, "terms", StrV("a"), NoDict, NoneV)
Spaced == AggCall(<<"agg", " ", "x">>, "terms", StrV("a"), NoDict, ListV(<<SubAvg>>))
Quoted == AggCall(<<"agg", " ", "\"", "x", "\"">>, "avg", NoneV, NoDict, NoneV)
Dotted == AggCall(<<"a", ".", "b">>, "avg", StrV("n"), NoDict, NoneV)

AggCalls ==
    {<<ByStatus, Spaced>>, <<AggX, ByLevel>>, <<Hits, NoName>>, <<ByStatus, AggX>>, <<ByLevel, Quoted>>, <<AggX, Dotted>>}

AggArgs == [aggs : AggCalls, fragments : {Fragments}]

AddAggregationOf(i) ==
    /\ Len(self_aggregations) < MaxAggs
    /\ IF validate_aggregation_name_raises(args.aggs[i].name)
       THEN /\ made' = [call |-> "add_aggregation", arg |-> i, result |-> Raise("ValueError")]
            /\ UNCHANGED <<self_aggregations, given>>
       ELSE /\ made' = [call |-> "add_aggregation", arg |-> i, result |-> Raise("")]
            /\ self_aggregations' = Append(self_aggregations, aggregation_entry(args.aggs[i]))
            /\ given' = Append(given, args.aggs[i])
    /\ last' = "add_aggregation"
    /\ UNCHANGED <<input, self_conditions, self_ordering, self_raw_aggregations, doc, args, peers, paging, filtering>>

AddAggregation == \E i \in DOMAIN args.aggs : AddAggregationOf(i)

NextAgg == AddAggregation \/ AddAggregationRaw \/ Build \/ Clear

InitAgg ==
    /\ input = <<>>
    /\ given = <<>>
    /\ Fresh
    /\ last = "init"
    /\ doc = NoDoc
    /\ args \in AggArgs
    /\ made = NoMade
    /\ NoPeers

SpecAgg == InitAgg /\ [][NextAgg]_vars

-----------------------------------------------------------------------------
(* A caller of every setter of the builder *)

MaxFilters == 1

Padded == CharsV(<<" ", "error", " ", "AND", " ", "x", "\n">>)
Blank == CharsV(<<" ", "\t">>)
StatusFilter == Terms("status", <<1>>)

AllArgs ==
    [ordering : {<<<<"-", "a">>>>},
     pages : {<<[page |-> 2, page_size |-> 20]>>},
     fragments : {<<Fragment2>>},
     aggs : {<<ByStatus>>},
     query_strings : {<<Padded>>},
     filters : {<<StatusFilter, NoneV>>}]

\* builder.query_string(query_string)
QueryString ==
    \E i \in DOMAIN args.query_strings :
        /\ self_query_string' = query_string_or_empty(args.query_strings[i])
        /\ made' = [call |-> "query_string", arg |-> i, result |-> Raise("")]
        /\ last' = "query_string"
        /\ UNCHANGED <<input, given, self_conditions, self_extra_filters, self_ordering, doc, args, peers, paging, aggregating>>

\* builder.add_filter(q)
AddFilter ==
    \E i \in DOMAIN args.filters :
        /\ Len(self_extra_filters) < MaxFilters
        /\ self_extra_filters' = IF args.filters[i] # NoneV
                                 THEN Append(self_extra_filters, args.filters[i])
                                 ELSE self_extra_filters
        /\ last' = "add_filter"
        /\ UNCHANGED <<input, given, self_conditions, self_query_string, self_ordering, doc, args, peers, made, paging, aggregating>>

NextAll ==
    \/ Conditions \/ QueryString \/ Ordering \/ Pagination \/ AddAggregation
    \/ AddAggregationRaw \/ AddFilter \/ Build \/ Clear

InitAll ==
    /\ input = <<Ia>>
    /\ given = <<>>
    /\ Fresh
    /\ last = "init"
    /\ doc = NoDoc
    /\ args \in AllArgs
    /\ made = NoMade
    /\ NoPeers

SpecAll == InitAll /\ [][NextAll]_vars

-----------------------------------------------------------------------------
(* A caller who registers free-text queries among the other calls *)

Inner == CharsV(<<"a", " ", "b">>)

TextArgs ==
    [ordering : {<<<<"-", "a">>>>},
     pages : {<<[page |-> 2, page_size |-> 20]>>},
     fragments : {<<Fragment2>>},
     query_strings : {<<NoneV, CharsV(<<>>), Blank, Padded, Inner>>},
     filters : {<<StatusFilter>>}]

NextText ==
    \/ Conditions \/ QueryString \/ Ordering \/ Pagination
    \/ AddAggregationRaw \/ AddFilter \/ Build \/ Clear

InitText ==
    /\ input = <<Ia>>
    /\ given = <<>>
    /\ Fresh
    /\ last = "init"
    /\ doc = NoDoc
    /\ args \in TextArgs
    /\ made = NoMade
    /\ NoPeers

SpecText == InitText /\ [][NextText]_vars

-----------------------------------------------------------------------------
(* A caller who registers one probe item, alone, beside another item, in a *)
(* group, or in a nested scope, and builds                                 *)

\* the methods of ConditionItem.VALID_METHODS and two that are not among them
KnownMethods == {"eq", "neq", "include", "exclude", "gt", "gte", "lt", "lte", "exists", "nexists"}
RangeMethods == {"gt", "gte", "lt", "lte"}
ExistsMethods == {"exists", "nexists"}
UnknownMethods == {"like", "EQ"}
ProbeMethods == KnownMethods \cup UnknownMethods

\* the values of a probe item: null, the empty list, lists and a scalar
ProbeValues == {NoneV, ListV(<<>>), ListV(<<3>>), ListV(<<3, 4>>), ScalarV(3)}

\* null is tried where the parser never looks inside the value
ValuesFor(method) == IF method \in RangeMethods \cup ExistsMethods THEN ProbeValues ELSE ProbeValues \ {NoneV}

ProbeShapes == 1..4

\* the caller's list around the probe item
Shape(k, item) ==
    IF k = 1 THEN <<item>>
    ELSE IF k = 2 THEN <<Ia, item>>
    ELSE IF k = 3 THEN <<With(Gand, <<item>>)>>
    ELSE <<With(Nor, <<Ia, item>>)>>

ItemArgs == UNION {{[item |-> Item("a", m, v), shape |-> k] : v \in ValuesFor(m), k \in ProbeShapes} : m \in ProbeMethods}

InitItems ==
    /\ args \in ItemArgs
    /\ input = Shape(args.shape, args.item)
    /\ given = <<>>
    /\ Fresh
    /\ last = "init"
    /\ doc = NoDoc
    /\ made = NoMade
    /\ NoPeers

SpecItems == InitItems /\ [][Next]_vars

-----------------------------------------------------------------------------
(* builders/query_string.py and a caller of QueryStringBuilder.  A built   *)
(* string is kept as the arguments of the format() and join() calls that   *)
(* make it.                                                                *)

\* QueryStringOperator members, and plain strings that are none
Enum(name) == [enum |-> name]
IsEnum(operator) == "enum" \in DOMAIN operator
\* self._operator_mapping.get(operator, QueryStringOperator.EQUAL), no mapping given
operator_mapping_get(operator) == Enum("equal")

\* the dict add_filter appends
filter_entry(field, operator, values, group_relation) ==
    [field |-> field,
     operator |-> IF IsEnum(operator) THEN operator ELSE operator_mapping_get(operator),
     values |-> AsList(values),
     group_relation |-> group_relation]

\* _process_values for EQUAL and NOT_EQUAL: each value between double quotes
process_values(values) == [i \in DOMAIN values |-> [quoted |-> values[i]]]

\* the join of the processed values, in parentheses when there are several
value_str(processed_values, group_relation) ==
    [logic |-> IF group_relation = "or" THEN "OR" ELSE "AND", values |-> processed_values, parens |-> Len(processed_values) > 1]

\* QueryStringBuilder._build_single_filter, for the operators BETWEEN, EXISTS,
\* NOT_EXISTS, EQUAL and NOT_EQUAL
build_single_filter(f) ==
    IF f.operator = Enum("between")
    THEN IF Len(f.values) < 2 THEN Raise("ValueError")
         ELSE [raised |-> "", template |-> f.operator.enum, field |-> f.field, start_value |-> IntV(f.values[1]), end_value |-> IntV(f.values[2])]
    ELSE IF f.operator \in {Enum("exists"), Enum("not_exists")}
    THEN [raised |-> "", template |-> f.operator.enum, field |-> f.field]
    ELSE IF f.values = <<>> THEN [raised |-> "", empty |-> TRUE]
    ELSE [raised |-> "", template |-> f.operator.enum, field |-> f.field, value |-> value_str(process_values(f.values), f.group_relation)]

RECURSIVE query_parts(_, _)

\* the loop of QueryStringBuilder.build over self._filters: the parts so far,
\* or the first exception
query_parts(filters, parts) ==
    IF filters = <<>> THEN [raised |-> "", parts |-> parts]
    ELSE LET query_part == build_single_filter(Head(filters))
         IN  IF Raised(query_part) THEN query_part
             ELSE query_parts(Tail(filters), IF "empty" \in DOMAIN query_part THEN parts ELSE Append(parts, query_part))

\* QueryStringBuilder.build with the default LogicOperator.AND
QueryStringBuilder_build(filters) ==
    LET r == query_parts(filters, <<>>)
    IN  IF Raised(r) THEN r ELSE [raised |-> "", logic |-> "AND", parts |-> r.parts]

MaxQsFilters == 2   \* most filters registered on one QueryStringBuilder

FilterCall(field, operator, values, group_relation) == [field |-> field, operator |-> operator, values |-> values, group_relation |-> group_relation]

\* the add_filter calls a caller makes
FilterCalls ==
    {FilterCall("age", op, v, "or") : op \in {Enum("between"), Enum("equal"), Enum("exists"), [str |-> "between"]}, v \in {ListV(<<>>), ListV(<<18>>), ListV(<<18, 30>>), ScalarV(18)}}
    \cup {FilterCall("age", Enum("not_equal"), ListV(<<18, 30>>), "and"), FilterCall("age", Enum("not_exists"), ListV(<<>>), "or")}

\* a between comparison with fewer than two bounds
BetweenShort(call) == call.operator = Enum("between") /\ Len(AsList(call.values)) < 2

\* an add_filter that refuses a between comparison with fewer than two bounds
QsAddFilter_checked ==
    \E call \in FilterCalls :
        /\ Len(self_filters) < MaxQsFilters
        /\ IF BetweenShort(call)
           THEN /\ made' = [call |-> "add_filter", arg |-> call, result |-> Raise("ValueError")]
                /\ self_filters' = self_filters
           ELSE /\ made' = [call |-> "add_filter", arg |-> call, result |-> Raise("")]
                /\ self_filters' = Append(self_filters, filter_entry(call.field, call.operator, call.values, call.group_relation))
        /\ last' = "add_filter"
        /\ UNCHANGED but_filters

\* builder.add_filter(field, operator, values, group_relation)
QsAddFilter ==
    \E call \in FilterCalls :
        /\ Len(self_filters) < MaxQsFilters
        /\ made' = [call |-> "add_filter", arg |-> call, result |-> Raise("")]
        /\ self_filters' = Append(self_filters, filter_entry(call.field, call.operator, call.values, call.group_relation))
        /\ last' = "add_filter"
        /\ UNCHANGED but_filters

\* builder.build()
QsBuild ==
    /\ made' = [call |-> "build", arg |-> NoneV, result |-> QueryStringBuilder_build(self_filters)]
    /\ last' = "build"
    /\ UNCHANGED <<but_filters, self_filters>>

\* builder.clear()
QsClear ==
    /\ self_filters' = <<>>
    /\ made' = [call |-> "clear", arg |-> NoneV, result |-> Raise("")]
    /\ last' = "clear"
    /\ UNCHANGED but_filters

NextQs == QsAddFilter \/ QsBuild \/ QsClear

InitQs ==
    /\ input = <<>>
    /\ given = <<>>
    /\ Fresh
    /\ last = "init"
    /\ doc = NoDoc
    /\ args = NoArgs
    /\ made = NoMade
    /\ NoPeers

SpecQs == InitQs /\ [][NextQs]_vars

-----------------------------------------------------------------------------
(* connection/tool.py and a caller of ESClientFactory.  An Elasticsearch   *)
(* object is its index in created; _clients maps a role to such an index.  *)

MaxCloseAll == 2    \* most close_all() calls of one factory

Roles == {"master", "read", "write"}
ClusterConfig(hosts, role) == [hosts |-> hosts, role |-> role]

\* the cluster lists a factory is constructed with
ClusterLists ==
    {<<ClusterConfig(1, "master")>>,
     <<ClusterConfig(1, "master"), ClusterConfig(2, "read")>>,
     <<ClusterConfig(1, "read"), ClusterConfig(2, "master")>>,
     <<ClusterConfig(1, "read"), ClusterConfig(2, "write")>>,
     <<ClusterConfig(1, "read"), ClusterConfig(2, "read")>>}

\* the configurations set_connection_config is called with
Configs == {ConnectionConfig(30), ConnectionConfig(60)}

\* the factory as the methods below hand it on: the cache, the objects
\* constructed, and what the call returns
Factory(clients, objects, result) == [clients |-> clients, objects |-> objects, result |-> result]
Returned(client) == [raised |-> "", client |-> client]

\* the clusters of a role, in the order of self._clusters
ClustersOf(clusters, role) == {k \in DOMAIN clusters : clusters[k].role = role}
First(S) == CHOOSE k \in S : \A j \in S : k <= j

\* _create_client: Elasticsearch(**kwargs) with the hosts of the cluster and
\* the values of self._connection_config
create_client(cluster_config, connection_config, era) ==
    [hosts |-> cluster_config.hosts, role |-> cluster_config.role, config |-> connection_config, closed |-> 0, era |-> era]

\* self._clients[role] = self._create_client(cluster); return it
cache_new(f, cluster_config, connection_config, era) ==
    Factory(f.clients @@ (cluster_config.role :> Len(f.objects) + 1), Append(f.objects, create_client(cluster_config, connection_config, era)), Returned(Len(f.objects) + 1))

\* the cached client of the cluster's role, constructed first if there is none
cached_or_new(f, cluster_config, connection_config, era) ==
    IF cluster_config.role \in DOMAIN f.clients
    THEN [f EXCEPT !.result = Returned(f.clients[cluster_config.role])]
    ELSE cache_new(f, cluster_config, connection_config, era)

\* ESClientFactory._get_default_client
get_default_client(f, clusters, connection_config, era) ==
    IF ClustersOf(clusters, "master") # {}
    THEN cached_or_new(f, clusters[First(ClustersOf(clusters, "master"))], connection_config, era)
    ELSE cached_or_new(f, clusters[1], connection_config, era)

\* ESClientFactory.get_client(role) with a role
get_client(f, clusters, connection_config, era, role) ==
    IF role \in DOMAIN f.clients THEN [f EXCEPT !.result = Returned(f.clients[role])]
    ELSE IF ClustersOf(clusters, role) # {}
    THEN cache_new(f, clusters[First(ClustersOf(clusters, role))], connection_config, era)
    ELSE [f EXCEPT !.result = Raise("ClusterNotFoundError")]

\* get_read_client and get_write_client: the default client when the role has no cluster
get_client_or_default(r, f, clusters, connection_config, era) ==
    IF Raised(r.result) THEN get_default_client(f, clusters, connection_config, era) ELSE r

RECURSIVE get_all_clients(_, _, _, _, _)

\* the loop of ESClientFactory.get_all_clients from cluster k on
get_all_clients(f, clusters, connection_config, era, k) ==
    IF k > Len(clusters) THEN [f EXCEPT !.result = [raised |-> "", clients |-> f.clients]]
    ELSE get_all_clients([cached_or_new(f, clusters[k], connection_config, era) EXCEPT !.result = NoneV], clusters, connection_config, era, k + 1)

\* client.close() on every cached client
close_cached(objects, clients) ==
    [i \in DOMAIN objects |-> IF \E r \in DOMAIN clients : clients[r] = i THEN [objects[i] EXCEPT !.closed = @ + 1] ELSE objects[i]]

FactoryNow == Factory(self_clients, created, NoneV)

\* the factory after a call that returned f
Returns(call, arg, f) ==
    /\ self_clients' = f.clients
    /\ created' = f.objects
    /\ made' = [call |-> call, arg |-> arg, result |-> f.result]
    /\ last' = call
    /\ UNCHANGED <<but_factory, self_connection_config, closed_all>>

\* factory.get_client()
GetDefaultClient == Returns("get_client", NoneV, get_default_client(FactoryNow, args.clusters, self_connection_config, closed_all))

\* factory.get_client(role)
GetClient == \E role \in Roles : Returns("get_client", [role |-> role], get_client(FactoryNow, args.clusters, self_connection_config, closed_all, role))

\* factory.get_read_client()
GetReadClient == Returns("get_read_client", NoneV, get_client_or_default(get_client(FactoryNow, args.clusters, self_connection_config, closed_all, "read"), FactoryNow, args.clusters, self_connection_config, closed_all))

\* factory.get_write_client()
GetWriteClient == Returns("get_write_client", NoneV, get_client_or_default(get_client(FactoryNow, args.clusters, self_connection_config, closed_all, "write"), FactoryNow, args.clusters, self_connection_config, closed_all))

\* factory.get_all_clients()
GetAllClients == Returns("get_all_clients", NoneV, get_all_clients(FactoryNow, args.clusters, self_connection_config, closed_all, 1))

\* a set_connection_config that drops the cached clients
SetConnectionConfig_drops ==
    \E config \in Configs :
        /\ self_connection_config' = config
        /\ self_clients' = <<>>
        /\ made' = [call |-> "set_connection_config", arg |-> config, result |-> Raise("")]
        /\ last' = "set_connection_config"
        /\ UNCHANGED <<but_factory, created, closed_all>>

\* factory.set_connection_config(config)
SetConnectionConfig ==
    \E config \in Configs :
        /\ self_connection_config' = config
        /\ made' = [call |-> "set_connection_config", arg |-> config, result |-> Raise("")]
        /\ last' = "set_connection_config"
        /\ UNCHANGED <<but_factory, self_clients, created, closed_all>>

\* factory.close_all()
CloseAll ==
    /\ closed_all < MaxCloseAll
    /\ created' = close_cached(created, self_clients)
    /\ self_clients' = <<>>
    /\ closed_all' = closed_all + 1
    /\ made' = [call |-> "close_all", arg |-> NoneV, result |-> Raise("")]
    /\ last' = "close_all"
    /\ UNCHANGED <<but_factory, self_connection_config>>

NextFactory ==
    \/ GetDefaultClient \/ GetClient \/ GetReadClient \/ GetWriteClient
    \/ GetAllClients \/ SetConnectionConfig \/ CloseAll

InitFactory ==
    /\ input = <<>>
    /\ given = <<>>
    /\ Fresh
    /\ last = "init"
    /\ doc = NoDoc
    /\ args \in [clusters : ClusterLists]
    /\ made = NoMade
    /\ NoPeers

SpecFactory == InitFactory /\ [][NextFactory]_vars

-----------------------------------------------------------------------------
(* bulk/tool.py and a caller of BulkOperationTool.bulk_execute.  An        *)
(* operation is its doc id; the bulk helper is the environment: it yields  *)
(* one outcome for each action sent, or raises.                            *)

MaxOps == 3       \* most operations of one bulk_execute call
MaxRetries == 2   \* largest max_retries tried

\* what the helper yields for an action: ok, an error, an error of status 409
Outcomes == {"ok", "error", "conflict"}

BulkResult(total, success, failed, errors) == [total |-> total, success |-> success, failed |-> failed, errors |-> errors]

Count(outcomes, S) == Cardinality({k \in DOMAIN outcomes : outcomes[k] \in S})

RECURSIVE SelectConflicts(_, _)

\* retry_actions: the actions that share _id and _index with a 409 error
SelectConflicts(acts, conflict_ids) ==
    IF acts = <<>> THEN <<>>
    ELSE IF Head(acts) \in conflict_ids THEN <<Head(acts)>> \o SelectConflicts(Tail(acts), conflict_ids)
    ELSE SelectConflicts(Tail(acts), conflict_ids)

ConflictIds(acts, outcomes) == {acts[k] : k \in {j \in DOMAIN acts : outcomes[j] = "conflict"}}

\* operations[i : i + self.batch_size]
BatchAt(i) == SubSeq(args.operations, i, IF i + args.batch_size - 1 < Len(args.operations) THEN i + args.batch_size - 1 ELSE Len(args.operations))

\* the loop over batches goes on with the batch at i, or the call ends
NextBatch(i, r) ==
    IF i <= Len(args.operations)
    THEN /\ bulk_result' = r
         /\ pc' = "retrying"
         /\ batch_start' = i
         /\ actions' = BatchAt(i)
         /\ attempt' = 0
    ELSE /\ bulk_result' = r
         /\ pc' = IF args.raise_on_error /\ r.failed > 0 THEN "raised" ELSE "returned"
         /\ UNCHANGED <<batch_start, actions, attempt>>

\* tool.bulk_execute(operations), up to the first bulk request
BulkExecute ==
    /\ pc = "idle"
    /\ IF args.operations = <<>>
       THEN /\ bulk_result' = BulkResult(0, 0, 0, 0)
            /\ pc' = "returned"
            /\ UNCHANGED <<batch_start, actions, attempt>>
       ELSE NextBatch(1, BulkResult(Len(args.operations), 0, 0, 0))
    /\ last' = "bulk_execute"
    /\ UNCHANGED <<but_bulking, made>>

\* one turn of the retry loop in which the helper yields outcomes
AttemptYields(outcomes) ==
    LET retry_actions == SelectConflicts(actions, ConflictIds(actions, outcomes))
    IN  IF Count(outcomes, {"conflict"}) > 0 /\ attempt < args.max_retries /\ retry_actions # <<>>
        THEN /\ actions' = retry_actions
             /\ attempt' = attempt + 1
             /\ UNCHANGED <<bulk_result, pc, batch_start>>
        ELSE NextBatch(batch_start + args.batch_size,
                       [bulk_result EXCEPT !.success = @ + Count(outcomes, {"ok"}),
                                      !.failed = @ + Count(outcomes, {"error", "conflict"}),
                                      !.errors = @ + Count(outcomes, {"error", "conflict"})])

\* one turn of the retry loop in which the helper raises
AttemptRaises ==
    IF attempt < args.max_retries
    THEN /\ attempt' = attempt + 1
         /\ UNCHANGED <<bulk_result, pc, batch_start, actions>>
    ELSE NextBatch(batch_start + args.batch_size,
                   [bulk_result EXCEPT !.failed = @ + Len(BatchAt(batch_start)),
                                  !.errors = @ + Len(BatchAt(batch_start))])

\* one bulk request of _execute_bulk_with_retry and what follows it
Attempt ==
    /\ pc = "retrying"
    /\ \/ \E outcomes \in [DOMAIN actions -> Outcomes] : AttemptYields(outcomes)
       \/ AttemptRaises
    /\ last' = "bulk"
    /\ UNCHANGED <<but_bulking, made>>

NextBulk == BulkExecute \/ Attempt

BulkArgs ==
    [operations : {<<>>, <<1>>, <<1, 2>>, <<1, 1>>, <<1, 2, 3>>},
     batch_size : 1..MaxOps,
     max_retries : 0..MaxRetries,
     raise_on_error : BOOLEAN]

InitBulk ==
    /\ input = <<>>
    /\ given = <<>>
    /\ Fresh
    /\ last = "init"
    /\ doc = NoDoc
    /\ args \in BulkArgs
    /\ made = NoMade
    /\ NoPeers

SpecBulk == InitBulk /\ [][NextBulk]_vars

-----------------------------------------------------------------------------
(* The condition lists as Python objects.  heap[at] is the object at an    *)
(* address: [list |-> addresses] or [dict |-> record], the record holding  *)
(* under "children" the address of the child list.  A caller builds a list,*)
(* hands it to conditions(), and calls build() and clear().                *)

MaxHeap == 14     \* conditions() is not called on a heap larger than this

\* the heap with one more object, and the address of that object
Stored(h, obj) == [heap |-> Append(h, obj), at |-> Len(h) + 1]

RECURSIVE AllocList(_, _, _)

AllocNodeWith(r, n) == Stored(r.heap, [dict |-> [n EXCEPT !.children = r.at]])
\* the caller's dict literal
AllocNode(h, n) == IF "children" \in DOMAIN n THEN AllocNodeWith(AllocList(h, n.children, <<>>), n) ELSE Stored(h, [dict |-> n])
AllocRest(r, xs, ats) == AllocList(r.heap, xs, Append(ats, r.at))
\* the caller's list literal
AllocList(h, xs, ats) == IF xs = <<>> THEN Stored(h, [list |-> ats]) ELSE AllocRest(AllocNode(h, Head(xs)), Tail(xs), ats)

RECURSIVE Deref(_, _)

\* the value of the dict at an address
DerefNode(h, at) == IF "children" \in DOMAIN h[at].dict THEN [h[at].dict EXCEPT !.children = Deref(h, @)] ELSE h[at].dict
\* the value of the list at an address
Deref(h, at) == [k \in 1..Len(h[at].list) |-> DerefNode(h, h[at].list[k])]

\* a _transform_single that writes the resolved name into the dict it is given
transform_single_in_place(h, at) ==
    IF "key" \notin DOMAIN h[at].dict
    THEN [heap |-> h, at |-> at]
    ELSE [heap |-> [h EXCEPT ![at] = [dict |-> transform_single(h[at].dict)]], at |-> at]

\* _transform_single on objects: the dict itself when it has no key, else a
\* new dict (cond.copy()) holding the resolved name
transform_single_ref(h, at) ==
    IF "key" \notin DOMAIN h[at].dict
    THEN [heap |-> h, at |-> at]
    ELSE Stored(h, [dict |-> transform_single(h[at].dict)])

RECURSIVE transform_children_ref(_, _, _)

\* new_group["children"] = [...]: the copy refers to the new child list
copy_with_children(r, group_dict) == Stored(r.heap, [dict |-> [group_dict EXCEPT !.children = r.at]])

\* _transform_group and _transform_nested on objects: a new dict
\* (group_dict.copy()) with a new child list
transform_group_ref(h, at) ==
    IF "children" \in DOMAIN h[at].dict
    THEN copy_with_children(transform_children_ref(h, h[h[at].dict.children].list, <<>>), h[at].dict)
    ELSE Stored(h, [dict |-> h[at].dict])

\* _transform_condition on objects
transform_condition_ref(h, at) ==
    IF Get(h[at].dict, "type", "item") \in {"group", "nested"}
    THEN transform_group_ref(h, at)
    ELSE transform_single_ref(h, at)

children_rest(r, ats, out) == transform_children_ref(r.heap, ats, Append(out, r.at))

\* [_transform_condition(child) for child in ...]: a new list
transform_children_ref(h, ats, out) ==
    IF ats = <<>> THEN Stored(h, [list |-> out])
    ELSE children_rest(transform_condition_ref(h, Head(ats)), Tail(ats), out)

\* FieldMapper.transform_condition_fields on objects
transform_condition_fields_ref(h, at) == transform_children_ref(h, h[at].list, <<>>)

\* self._conditions = the list transform_condition_fields returned
ConditionsStores(r) ==
    /\ heap' = r.heap
    /\ self_conditions_at' = r.at
    /\ self_conditions' = Deref(r.heap, r.at)
    /\ given' = Deref(heap, args.conditions)
    /\ last' = "conditions"
    /\ UNCHANGED <<input, doc, args, made, others, self_filters, factory, bulking>>

\* builder.conditions(the caller's list)
ConditionsOnHeap ==
    /\ Len(heap) <= MaxHeap
    /\ ConditionsStores(transform_condition_fields_ref(heap, args.conditions))

\* builder.build()
BuildOnHeap ==
    /\ doc' = DslQueryBuilder_build(Deref(heap, self_conditions_at), self_query_string, self_extra_filters, self_ordering, self_page, self_page_size, self_aggregations, self_raw_aggregations)
    /\ last' = "build"
    /\ UNCHANGED <<input, given, self_conditions, args, made, others, peers>>

\* builder.clear(): self._conditions.clear() empties the list object
ClearOnHeap ==
    /\ heap' = [heap EXCEPT ![self_conditions_at] = [list |-> <<>>]]
    /\ self_conditions' = <<>>
    /\ self_query_string' = <<>>
    /\ self_extra_filters' = <<>>
    /\ self_ordering' = <<>>
    /\ self_page' = DefaultPage
    /\ self_page_size' = DefaultPageSize
    /\ self_aggregations' = <<>>
    /\ self_raw_aggregations' = <<>>
    /\ given' = <<>>
    /\ paged' = IF paged.state = "never" THEN paged ELSE [paged EXCEPT !.state = "cleared"]
    /\ last' = "clear"
    /\ UNCHANGED <<input, doc, args, made, self_conditions_at, self_filters, factory, bulking>>

NextHeap == ConditionsOnHeap \/ BuildOnHeap \/ ClearOnHeap

\* the lists the caller builds
HeapLists ==
    {<<>>, <<Ia>>, <<Mnokey>>, <<Gdefault>>,
     <<Ia, With(Gor, <<Id, Mnokey>>)>>,
     <<With(Nand, <<With(Gand, <<Ia>>)>>), Icand>>,
     <<With(Munknown, <<Ia>>)>>,
     <<With(Gand, <<>>), Mnoval>>}

\* the caller's objects
HeapArgs == {[heap |-> r.heap, conditions |-> r.at] : r \in {AllocList(<<>>, list, <<>>) : list \in HeapLists}}

InitHeap ==
    /\ args \in HeapArgs
    /\ input = Deref(args.heap, args.conditions)
    /\ given = <<>>
    /\ Fresh
    /\ last = "init"
    /\ doc = NoDoc
    /\ made = NoMade
    /\ NoCalls
    /\ heap = Append(args.heap, [list |-> <<>>])
    /\ self_conditions_at = Len(args.heap) + 1

SpecHeap == InitHeap /\ [][NextHeap]_vars

-----------------------------------------------------------------------------
(* The vocabulary of the properties, taken from the condition dicts alone *)

TypeOf(n) == Get(n, "type", "item")
ChildrenOf(n) == Get(n, "children", <<>>)
IsComposite(n) == TypeOf(n) \in {"group", "nested"}

\* missing a required field, or of an unrecognized kind
Malformed(n) ==
    \/ TypeOf(n) \notin {"item", "group", "nested"}
    \/ TypeOf(n) = "item" /\ ("key" \notin DOMAIN n \/ "value" \notin DOMAIN n)
    \/ TypeOf(n) = "nested" /\ "path" \notin DOMAIN n

\* digits followed by %, or made only of digits, < and >
WellFormedMsmString(cs) == MatchPercentWhole(cs) \/ MatchRangeWhole(cs)

MalformedMsm(v) ==
    \/ IsInt(v) /\ v.int < 0
    \/ IsChars(v) /\ ~WellFormedMsmString(v.chars)

BlankPath(path) == \A i \in 1..Len(path) : path[i] \in Whitespace

\* invalid by construction: blank nested path, combinator other than and/or,
\* malformed minimum-match value
Invalid(n) ==
    /\ ~Malformed(n)
    /\ \/ TypeOf(n) = "nested" /\ BlankPath(n.path)
       \/ "condition" \in DOMAIN n /\ n.condition \notin {"and", "or"}
       \/ IsComposite(n) /\ "minimum_should_match" \in DOMAIN n /\ MalformedMsm(n.minimum_should_match)

BadScoreMode(n) ==
    /\ TypeOf(n) = "nested"
    /\ "score_mode" \in DOMAIN n
    /\ n.score_mode.str \notin {"avg", "max", "min", "sum", "none"}

RECURSIVE Usable(_)

\* the node contributes a query: it is well formed, valid, and, for a group
\* or nested node, has a child that contributes one
Usable(n) ==
    /\ ~Malformed(n)
    /\ ~Invalid(n)
    /\ ~BadScoreMode(n)
    /\ IsComposite(n) => \E i \in 1..Len(ChildrenOf(n)) : Usable(ChildrenOf(n)[i])

\* a group or nested node without any usable child
Childless(n) ==
    /\ IsComposite(n)
    /\ \A i \in 1..Len(ChildrenOf(n)) : ~Usable(ChildrenOf(n)[i])

Drop(mode, n) ==
    IF mode = "malformed" THEN Malformed(n)
    ELSE IF mode = "invalid" THEN Invalid(n)
    ELSE IF mode = "childless" THEN Childless(n)
    ELSE ~Usable(n)

RECURSIVE Strip(_, _)

\* the list without the nodes to drop, at every depth
Strip(mode, list) ==
    IF list = <<>> THEN <<>>
    ELSE LET n == Head(list)
             rest == Strip(mode, Tail(list))
         IN  IF Drop(mode, n) THEN rest
             ELSE IF "children" \in DOMAIN n
             THEN <<[n EXCEPT !.children = Strip(mode, n.children)]>> \o rest
             ELSE <<n>> \o rest

RECURSIVE Nodes(_)

\* the nodes of a list, at every depth
Nodes(list) ==
    IF list = <<>> THEN {}
    ELSE {Head(list)} \cup Nodes(ChildrenOf(Head(list))) \cup Nodes(Tail(list))

RECURSIVE TopNodesOnly(_)

TopNodesOnly(list) == IF list = <<>> THEN {} ELSE {Head(list)} \cup TopNodesOnly(Tail(list))

Built == last = "build"
HasFilter == Built /\ ~Raised(doc) /\ "query" \in DOMAIN to_dict(doc.search)
\* the compiled condition filter: the only entry of the filter context
Filter == doc.search.query.filter[1]

\* the document build() returns for a caller's list
DocOf(list) == build(transform_condition_fields(list))

-----------------------------------------------------------------------------
(* What a query requires of a document.  A document is the set T of the   *)
(* leaf predicates and nested scopes it satisfies.                         *)

RECURSIVE DigitsValue(_)

DigitValue(c) == CHOOSE d \in 0..9 : <<"0", "1", "2", "3", "4", "5", "6", "7", "8", "9">>[d + 1] = c

DigitsValue(cs) == IF cs = <<>> THEN 0 ELSE 10 * DigitsValue(SubSeq(cs, 1, Len(cs) - 1)) + DigitValue(cs[Len(cs)])

\* how many of the n should clauses must match
Required(q) ==
    LET m == q.minimum_should_match
        n == Len(q.should)
    IN  IF m = NoneV
        THEN IF n > 0 /\ q.must = <<>> /\ q.filter = <<>> THEN 1 ELSE 0
        ELSE IF IsInt(m) THEN m.int
        ELSE IF MatchPercentWhole(m.chars)
        THEN (n * DigitsValue(SubSeq(m.chars, 1, Len(m.chars) - 1))) \div 100
        ELSE n

RECURSIVE Sat(_, _)

Sat(q, T) ==
    IF q.kind = "match_none" THEN FALSE
    ELSE IF q.kind = "bool"
    THEN /\ \A i \in 1..Len(q.must) : Sat(q.must[i], T)
         /\ \A i \in 1..Len(q.filter) : Sat(q.filter[i], T)
         /\ \A i \in 1..Len(q.must_not) : ~Sat(q.must_not[i], T)
         /\ Cardinality({i \in 1..Len(q.should) : Sat(q.should[i], T)}) >= Required(q)
    ELSE q \in T

RECURSIVE Atoms(_)

AtomsOfAll(qs) == UNION {Atoms(qs[i]) : i \in 1..Len(qs)}

Atoms(q) ==
    IF q.kind = "match_none" THEN {}
    ELSE IF q.kind = "bool"
    THEN AtomsOfAll(q.must) \cup AtomsOfAll(q.filter) \cup AtomsOfAll(q.must_not) \cup AtomsOfAll(q.should)
    ELSE {q}

\* the query one usable top-level node compiles to
QueryOf(n) == cond_q(transform_condition(n))[1]

UsableAt(list) == {i \in 1..Len(list) : Usable(list[i])}

-----------------------------------------------------------------------------
(* Properties *)

\* a usable group or nested node with a child that Drop(mode, _) drops
DropsInside(mode, list) ==
    \E g \in Nodes(list) :
        /\ Usable(g)
        /\ IsComposite(g)
        /\ \E i \in 1..Len(ChildrenOf(g)) : Drop(mode, ChildrenOf(g)[i])

MixedShape(list) ==
    /\ Len(list) = 3
    /\ TypeOf(list[1]) = "item"
    /\ TypeOf(list[2]) = "group" /\ Get(list[2], "condition", "and") = "or"
    /\ TypeOf(list[3]) = "nested" /\ Get(list[3], "condition", "and") = "and"
    /\ \A i \in 1..3 : Usable(list[i])

\* C2: for a list [Item, Group{OR}, Nested{AND}] of usable nodes the filter
\* is the AND of the three: a document passes it exactly when it satisfies
\* the item, the group and the nested scope
C2_MixedIsAndOfThree ==
    (Built /\ MixedShape(given)) =>
        /\ HasFilter
        /\ \A T \in SUBSET Atoms(Filter) :
              Sat(Filter, T) <=> \A i \in 1..3 : Sat(QueryOf(given[i]), T)

ItemsOnly(list) == \A i \in 1..Len(list) : TypeOf(list[i]) = "item"

\* C3: whatever the order of the nodes, the filter cannot be satisfied
\* unless the predicate of every usable node not tagged OR holds (stated on
\* lists of items, whose tag can only be their relation to their siblings)
C3_NonOrNodesRequired ==
    (HasFilter /\ ItemsOnly(given)) =>
        \A T \in SUBSET Atoms(Filter) :
            Sat(Filter, T) =>
                \A i \in UsableAt(given) :
                    Get(given[i], "condition", "and") # "or" => Sat(QueryOf(given[i]), T)

C5_NoUsableNoFilter ==
    (Built /\ UsableAt(given) = {}) => (~Raised(doc) /\ "query" \notin DOMAIN to_dict(doc.search))

C5_Witness ==
    /\ Built
    /\ Len(given) = 2
    /\ UsableAt(given) = {}
    /\ \E i \in 1..Len(given) : ChildrenOf(given[i]) # <<>>
    /\ "query" \notin DOMAIN to_dict(doc.search)

\* C6: a group or nested node without a usable child, at any depth, compiles
\* to absence: build() returns exactly what it returns for the list without it
C6_ChildlessIsAbsent == Built => doc = DocOf(Strip("childless", given))

C6_Witness ==
    /\ HasFilter
    /\ \E g \in Nodes(given) :
          /\ Usable(g)
          /\ \E i \in 1..Len(ChildrenOf(g)) :
                Childless(ChildrenOf(g)[i]) /\ ChildrenOf(ChildrenOf(g)[i]) # <<>>

-----------------------------------------------------------------------------
(* Reading a compiled query against the node it was compiled from *)

UsableChildren(n) == SelectSeq(ChildrenOf(n), Usable)
ConditionOf(n) == Get(n, "condition", "and")

\* the boolean node of a compiled group or nested node, NoneV if q has not that shape
BoolNodeOf(n, q) ==
    IF TypeOf(n) = "nested"
    THEN IF q.kind = "nested" /\ "query" \in DOMAIN q /\ q.query.kind = "bool" THEN q.query ELSE NoneV
    ELSE IF q.kind = "bool" THEN q ELSE NoneV

\* the clauses that hold the children
ClausesOf(n, b) == IF ConditionOf(n) = "or" THEN b.should ELSE b.must

RECURSIVE Mirror(_, _)

\* the usable nodes under n, each with the query found at its place in q;
\* a node whose children do not line up with the clauses is marked broken
Mirror(n, q) ==
    IF ~IsComposite(n) THEN {[node |-> n, q |-> q, broken |-> FALSE]}
    ELSE LET b == BoolNodeOf(n, q)
             kids == UsableChildren(n)
         IN  IF b = NoneV \/ Len(ClausesOf(n, b)) # Len(kids)
             THEN {[node |-> n, q |-> q, broken |-> TRUE]}
             ELSE {[node |-> n, q |-> q, broken |-> FALSE]}
                  \cup UNION {Mirror(kids[i], ClausesOf(n, b)[i]) : i \in 1..Len(kids)}

SingleUsable == Built /\ Len(given) = 1 /\ Usable(given[1])

Without(n, key) == [k \in DOMAIN n \ {key} |-> n[k]]

\* the boolean node b holds the children of n as the combinator of n says
GroupNodeOK(n, b) ==
    /\ b.must_not = <<>>
    /\ b.filter = <<>>
    /\ IF ConditionOf(n) = "or"
       THEN /\ b.must = <<>>
            /\ Len(b.should) = Len(UsableChildren(n))
            /\ b.minimum_should_match = Get(n, "minimum_should_match", NoneV)
       ELSE /\ b.should = <<>>
            /\ Len(b.must) = Len(UsableChildren(n))
            /\ b.minimum_should_match = NoneV

EchoOK(n, q, key) ==
    /\ key \in DOMAIN q <=> key \in DOMAIN n
    /\ key \in DOMAIN n => q[key] = n[key]

\* C8: a nested node with a usable child compiles to a nested wrapper with
\* the node's path unchanged and the boolean node of the children as its
\* query; score_mode and inner_hits are there iff set, and unchanged
C8_NestedNode ==
    SingleUsable =>
        /\ HasFilter
        /\ \A p \in Mirror(given[1], Filter) :
              TypeOf(p.node) = "nested" =>
                  /\ ~p.broken
                  /\ p.q.kind = "nested"
                  /\ DOMAIN p.q \subseteq {"kind", "path", "query", "score_mode", "inner_hits"}
                  /\ p.q.path = p.node.path
                  /\ GroupNodeOK(p.node, p.q.query)
                  /\ EchoOK(p.node, p.q, "score_mode")
                  /\ EchoOK(p.node, p.q, "inner_hits")

C8_Witness ==
    /\ SingleUsable
    /\ HasFilter
    /\ TypeOf(given[1]) = "nested"
    /\ Filter.path = <<" ", "t", " ">>
    /\ "score_mode" \notin DOMAIN Filter
    /\ Filter.inner_hits = DictV([size |-> 0])
    /\ Len(Filter.query.must) = 2
    /\ Filter.query.must[2].kind = "nested"
    /\ Filter.query.must[2].score_mode = StrV("avg")

RECURSIVE LeafFields(_)

LeafFieldsOfAll(qs) == UNION {LeafFields(qs[i]) : i \in 1..Len(qs)}

\* the field names of the leaf predicates of a query
LeafFields(q) ==
    IF q.kind = "match_none" THEN {}
    ELSE IF q.kind = "bool"
    THEN LeafFieldsOfAll(q.must) \cup LeafFieldsOfAll(q.filter) \cup LeafFieldsOfAll(q.must_not) \cup LeafFieldsOfAll(q.should)
    ELSE IF q.kind = "nested" THEN LeafFields(q.query)
    ELSE {q.field}

RECURSIVE UsableItems(_)

\* the items of a list that reach the output, at every depth
UsableItems(list) ==
    IF list = <<>> THEN {}
    ELSE LET n == Head(list)
         IN  (IF ~Usable(n) THEN {}
              ELSE IF IsComposite(n) THEN UsableItems(ChildrenOf(n))
              ELSE {n})
             \cup UsableItems(Tail(list))

Passed(call) ==
    IF call = "ConditionGroup" THEN {"condition", "minimum_should_match"}
    ELSE {"path", "condition", "score_mode", "minimum_should_match"}

\* the arguments of a constructor call that the claim calls invalid
InvalidArgs(call) ==
    \/ args.condition \notin {"and", "or"}
    \/ MalformedMsm(args.minimum_should_match)
    \/ /\ call = "NestedCondition"
       /\ \/ BlankPath(args.path)
          \/ args.score_mode \notin {NoneV, StrV("avg"), StrV("max"), StrV("min"), StrV("sum"), StrV("none")}

\* the constructed object stores the arguments unchanged
StoredUnchanged(call, result) == \A k \in Passed(call) : result[k] = args[k]

\* C9: constructing a ConditionGroup or NestedCondition raises ValueError
\* exactly when an argument is invalid (combinator other than and/or, blank
\* nested path, unknown score mode, negative minimum-match integer, or a
\* minimum-match string that is neither digits followed by % nor made only of
\* digits, < and >); valid arguments construct and are stored unchanged
C9_InvalidArgsRaise ==
    made # NoMade =>
        IF InvalidArgs(made.call)
        THEN made.result = Raise("ValueError")
        ELSE ~Raised(made.result) /\ StoredUnchanged(made.call, made.result)

-----------------------------------------------------------------------------
(* The mapper, against its registry *)

\* an aggregation-specific wire name is registered for the name
HasAggName(field) ==
    /\ field \in DOMAIN Fields
    /\ Fields[field].es_field_for_agg \notin {NoneV, StrV("")}

\* C11: resolution returns the name itself when no mapping is registered;
\* otherwise the aggregation-specific wire name when forAggregation is true
\* and one is registered, and the normal wire name in every other case
C11_ResolveTotal ==
    (made # NoMade /\ made.call = "get_es_field") =>
        made.result.name =
            IF args.field \notin DOMAIN Fields THEN args.field
            ELSE IF args.for_agg /\ HasAggName(args.field)
            THEN Fields[args.field].es_field_for_agg.str
            ELSE Fields[args.field].es_field

C11_Witness ==
    /\ made # NoMade
    /\ made.call = "get_es_field"
    /\ args.field = "n"
    /\ args.for_agg
    /\ made.result.name = "n.keyword"

\* the name of a sort entry: the entry without its leading "-"
EntryName(e) == IF Len(e) >= 1 /\ e[1] = "-" THEN Tail(e) ELSE e

\* the wire name for aggregation of a name given as its tokens
Resolved(name) ==
    IF Len(name) = 1 /\ name[1] \in DOMAIN Fields
    THEN IF HasAggName(name[1])
         THEN <<Fields[name[1]].es_field_for_agg.str>>
         ELSE <<Fields[name[1]].es_field>>
    ELSE name

\* C12: the output sort list has the length and order of the input, and its
\* i-th entry is the name of the i-th input entry resolved for aggregation,
\* with the leading "-" of the input entry put back in front of it
C12_OrderingResolved ==
    (made # NoMade /\ made.call = "transform_ordering_fields") =>
        LET in == args.ordering
            out == made.result.ordering
        IN  /\ Len(out) = Len(in)
            /\ \A i \in 1..Len(in) :
                  out[i] = IF Len(in[i]) >= 1 /\ in[i][1] = "-"
                           THEN <<"-">> \o Resolved(EntryName(in[i]))
                           ELSE Resolved(in[i])

C12_Witness ==
    /\ made # NoMade
    /\ made.call = "transform_ordering_fields"
    /\ args.ordering = <<<<"-", "n">>, <<"x">>>>
    /\ made.result.ordering = <<<<"-", "n.keyword">>, <<"x">>>>

-----------------------------------------------------------------------------
(* Pagination *)

\* the window of the latest pagination() call
LatestFrom == (Max(1, paged.page) - 1) * Max(0, paged.page_size)
LatestSize == Max(0, paged.page_size)

\* C13 as stated: once pagination() was called, every built document has the
\* window of the latest call, whatever was called in between
C13_LatestPaginationAlways ==
    Built /\ ~Raised(doc) /\ paged.state # "never" => doc.search.from = LatestFrom /\ doc.search.size = LatestSize

\* C13: a built document has from = (p - 1) * s and size = s, p = max(1, page)
\* and s = max(0, page_size) of the latest pagination() call, when clear() was
\* not called since; it has from = 0 and size = 10 when pagination() was never
\* called or clear() was called since
C13_WindowOfLatestPagination ==
    Built /\ ~Raised(doc) =>
        IF paged.state = "set"
        THEN doc.search.from = LatestFrom /\ doc.search.size = LatestSize
        ELSE doc.search.from = 0 /\ doc.search.size = 10

\* pagination(0, 0) was built, after other setters, into from = 0 and size = 0
C13_Witness ==
    /\ Built /\ ~Raised(doc)
    /\ paged = [state |-> "set", page |-> 0, page_size |-> 0]
    /\ self_ordering # <<>> /\ self_raw_aggregations # <<>>
    /\ doc.search.from = 0 /\ doc.search.size = 0


-----------------------------------------------------------------------------
(* Raw aggregation fragments *)

\* the query, sort, from and size fields of a built document
Core(search) ==
    LET d == to_dict(search)
    IN  [k \in DOMAIN d \cap {"query", "sort", "from", "size"} |-> d[k]]

\* the document build() returns in the current state, and the one it would
\* return with no raw fragment registered
DocNow ==
    builder_build(self_conditions, self_ordering, self_page, self_page_size, self_aggregations, self_raw_aggregations)

\* what build() reads of the builder, and the document it returns for it
Registered ==
    <<self_conditions, self_ordering, self_page, self_page_size, self_aggregations, self_raw_aggregations>>
DocBuiltFrom(r) == builder_build(r[1], r[2], r[3], r[4], r[5], r[6])
DocWithoutRaw ==
    builder_build(self_conditions, self_ordering, self_page, self_page_size, self_aggregations, <<>>)

\* C14: the query, sort, from and size fields of a document built with raw
\* aggregation fragments registered equal those of the document built from
\* the same builder state without the fragments
C14_RawKeepsCore ==
    Built /\ ~Raised(doc) => Core(doc.search) = Core(DocWithoutRaw.search)

\* a document with a query, a sort and a window set by the caller was built
\* with raw fragments registered
C14_Witness ==
    /\ Built /\ ~Raised(doc)
    /\ self_raw_aggregations # <<>>
    /\ self_conditions # <<>> /\ self_ordering # <<>> /\ paged.state = "set"
    /\ DOMAIN Core(doc.search) = {"query", "sort", "from", "size"}
    /\ "aggs" \in DOMAIN to_dict(doc.search)


\* the aggregations of a built document, its keys, and the value under a key
AggsOf(d) == Get(to_dict(d.search), "aggs", <<>>)
Keys(aggs) == {aggs[i].name : i \in 1..Len(aggs)}
Lookup(aggs, k) == aggs[CHOOSE i \in 1..Len(aggs) : aggs[i].name = k].value
UniqueKeys(aggs) == \A i, j \in 1..Len(aggs) : aggs[i].name = aggs[j].name => i = j

\* the entries of aggs under keys outside ks, in their order
RECURSIVE Besides(_, _)

Besides(aggs, ks) ==
    IF aggs = <<>> THEN <<>>
    ELSE IF Head(aggs).name \in ks THEN Besides(Tail(aggs), ks)
    ELSE <<Head(aggs)>> \o Besides(Tail(aggs), ks)

\* the document built when the fragment registered last is left out
DocWithoutLastRaw ==
    builder_build(self_conditions, self_ordering, self_page, self_page_size, self_aggregations,
                  SubSeq(self_raw_aggregations, 1, Len(self_raw_aggregations) - 1))

\* the registered fragments that hold key k, by position
Writers(k) == {i \in 1..Len(self_raw_aggregations) : k \in Keys(self_raw_aggregations[i])}
LastWriter(k) == CHOOSE i \in Writers(k) : \A j \in Writers(k) : j <= i

\* the structured aggregation registered last under name k, as built
StructuredValue(k) == Lookup(apply_structured(<<>>, self_aggregations), k)

\* C15: raw fragments are merged by top-level key.  A fragment registered
\* twice in a row builds the document of registering it once; under every key
\* the document holds the value of the last registered fragment that has the
\* key, and the structured aggregation of that name only when no fragment has
\* it (fragments are written after the structured aggregations); the entries
\* under the keys a fragment does not have are, values and order, those of the
\* document built without the fragment
C15_KeyedMerge ==
    Built /\ ~Raised(doc) =>
        LET raw == self_raw_aggregations
            n == Len(raw)
            aggs == AggsOf(doc)
        IN  /\ UniqueKeys(aggs)
            /\ n >= 2 /\ raw[n] = raw[n - 1] => doc = DocWithoutLastRaw
            /\ \A k \in Keys(aggs) :
                   Lookup(aggs, k) = IF Writers(k) # {}
                                     THEN Lookup(raw[LastWriter(k)], k)
                                     ELSE StructuredValue(k)
            /\ n >= 1 =>
                   /\ Keys(aggs) = Keys(AggsOf(DocWithoutLastRaw)) \cup Keys(raw[n])
                   /\ Besides(aggs, Keys(raw[n])) = Besides(AggsOf(DocWithoutLastRaw), Keys(raw[n]))

\* two fragments and a structured aggregation share a key, and the document
\* holds the later fragment beside aggregations under other keys
C15_Witness ==
    /\ Built /\ ~Raised(doc)
    /\ self_raw_aggregations = <<Fragment2, Fragment1>>
    /\ Len(self_aggregations) = 2
    /\ self_aggregations[1].name = <<"by_status">>
    /\ Lookup(AggsOf(doc), <<"by_status">>) = TermsAgg("status")
    /\ Keys(AggsOf(doc)) = {<<"by_status">>, <<"agg_x">>, <<"avg_x">>}


-----------------------------------------------------------------------------
(* Aggregation names *)

\* empty, or holding a double quote, a dot or a space
BadName(name) == name = <<>> \/ \E i \in 1..Len(name) : name[i] \in {"\"", ".", " "}

\* C16: add_aggregation with a name that is empty or holds a double quote, a
\* dot or a space raises ValueError and leaves the builder as it was, so that
\* build() returns the document it returned before the call; with any other
\* name the call does not raise and registers the aggregation
C16_BadNameRaisesUnregistered ==
    [][\A i \in DOMAIN args.aggs :
           AddAggregationOf(i) =>
               IF BadName(args.aggs[i].name)
               THEN /\ made'.result = Raise("ValueError")
                    /\ Registered' = Registered
                    /\ DocBuiltFrom(Registered') = DocBuiltFrom(Registered)
               ELSE /\ ~Raised(made'.result)
                    /\ Len(self_aggregations') = Len(self_aggregations) + 1
                    /\ self_aggregations'[Len(self_aggregations')].name = args.aggs[i].name]_vars

\* a call with a bad name raised on a builder holding an aggregation, and the
\* document built afterwards is the one of the builder before the call
C16_Witness ==
    /\ Built /\ ~Raised(doc)
    /\ made # NoMade /\ Raised(made.result)
    /\ BadName(args.aggs[made.arg].name)
    /\ Len(self_aggregations) = 1 /\ self_aggregations[1].name = <<"agg_x">>
    /\ Keys(AggsOf(doc)) = {<<"agg_x">>}


RECURSIVE AllNames(_)

\* the aggregation names of a container, at every depth
AllNames(aggs) ==
    IF aggs = <<>> THEN {}
    ELSE {Head(aggs).name} \cup AllNames(Head(aggs).value.aggs) \cup AllNames(Tail(aggs))

\* C17: in every built document each aggregation name of the structured
\* aggregation tree, top-level or sub-aggregation at any depth, is non-empty
\* and holds no double quote, dot or space
C17_TreeNamesValid ==
    Built /\ ~Raised(doc) =>
        \A name \in AllNames(apply_structured(<<>>, self_aggregations)) :
            name \in AllNames(AggsOf(doc)) => ~BadName(name)


-----------------------------------------------------------------------------
(* The aggregation document against the trees given to add_aggregation. *)
(* In a behaviour of SpecAgg, given is the list of the accepted calls.    *)

\* the wire name for aggregation of a field name
AggWireName(field) ==
    IF field \notin DOMAIN Fields THEN field
    ELSE IF HasAggName(field) THEN Fields[field].es_field_for_agg.str
    ELSE Fields[field].es_field

\* the parameters of a node: its own, and its resolved field unless it has
\* none or is of type top_hits
NodeParams(type, field, own) ==
    IF type = "top_hits" \/ field = NoneV \/ field = StrV("") THEN own
    ELSE [field |-> AggWireName(field.str)] @@ own

OwnParams(n) == [p \in DOMAIN n \ {"name", "type", "field", "sub_aggregations"} |-> n[p]]

RECURSIVE MirrorChildren(_)

\* the document of a sub-aggregation dict
MirrorNode(n) ==
    [name |-> n.name,
     value |-> [type |-> n.type,
                params |-> NodeParams(n.type, Get(n, "field", NoneV), OwnParams(n)),
                aggs |-> MirrorChildren(Get(n, "sub_aggregations", NoneV))]]

\* the documents of a list of sub-aggregation dicts, in its order
MirrorChildren(subs) ==
    IF subs = NoneV THEN <<>>
    ELSE [i \in 1..Len(subs.list) |-> MirrorNode(subs.list[i])]

\* the document of the tree given to one add_aggregation call
MirrorCall(a) ==
    [name |-> a.name,
     value |-> [type |-> a.agg_type,
                params |-> NodeParams(a.agg_type, a.field, a.kwargs),
                aggs |-> MirrorChildren(a.sub_aggregations)]]

DistinctNames(calls) == \A i, j \in 1..Len(calls) : calls[i].name = calls[j].name => i = j

\* C18: the built aggregation document mirrors the registered trees.  Every
\* tree not replaced by a later tree or a raw fragment of its name is in the
\* document under its name, each node with its type and own parameters, its
\* children in input order under it, its field the aggregation wire name of
\* the given field resolved once, and no field on a top_hits node; with
\* distinct names and no raw fragment the document is the list of the trees
\* in the order of registration
C18_DocumentMirrorsTrees ==
    Built /\ ~Raised(doc) =>
        /\ \A i \in 1..Len(given) :
               (\A j \in 1..Len(given) : given[j].name = given[i].name => j <= i) /\ Writers(given[i].name) = {}
                   => /\ given[i].name \in Keys(AggsOf(doc))
                      /\ Lookup(AggsOf(doc), given[i].name) = MirrorCall(given[i]).value
        /\ DistinctNames(given) /\ self_raw_aggregations = <<>>
               => AggsOf(doc) = [i \in 1..Len(given) |-> MirrorCall(given[i])]

\* two trees were built, one with a renamed field at depth 2 and a top_hits
\* child given a field
C18_Witness ==
    /\ Built /\ ~Raised(doc)
    /\ given \in {<<ByStatus, AggX>>, <<AggX, ByLevel>>}
    /\ self_raw_aggregations = <<>>
    /\ Len(AggsOf(doc)) = 2
    /\ LET by == Lookup(AggsOf(doc), <<"by_status">>)
       IN  IF given[1] = ByStatus
           THEN Lookup(by.aggs, <<"top">>).params = [size |-> 3]
           ELSE Lookup(Lookup(by.aggs, <<"bad", " ", "name">>).aggs, <<"deep", ".", "er">>).params = [field |-> "b"]


-----------------------------------------------------------------------------
(* build() as a function of the builder *)

BuildStep == last' \in {"build", "rebuild"}

\* C19: build() called twice with no builder call in between returns equal
\* documents; build() leaves nothing behind in the builder, and its document
\* is the one determined by the condition list given and the other
\* registered inputs, however often they were compiled before
C19_Deterministic ==
    [][BuildStep =>
           /\ last \in {"build", "rebuild"} => doc' = doc
           /\ Registered' = Registered
           /\ doc' = builder_build(transform_condition_fields(given), self_ordering, self_page, self_page_size, self_aggregations, self_raw_aggregations)]_vars

\* build() ran a second time on a builder holding conditions, a sort and raw
\* fragments, and returned the document of the state
C19_Witness ==
    /\ last = "rebuild"
    /\ self_conditions # <<>> /\ self_ordering # <<>> /\ self_raw_aggregations # <<>>
    /\ doc = DocNow

\* C20: every build() returns the document determined by the builder state
\* at the moment of the call, and no other builder call changes a document
\* already returned
C20_NoFinalizeNoCache ==
    [][IF BuildStep THEN doc' = DocBuiltFrom(Registered) ELSE doc' = doc]_vars

\* after a build() the window was changed: the document returned keeps the
\* old window, and is no longer the document of the builder
C20_Witness ==
    /\ last = "pagination" /\ doc # NoDoc /\ ~Raised(doc)
    /\ doc # DocNow
    /\ doc.search.size # DocNow.search.size


-----------------------------------------------------------------------------
(* clear() *)

\* the document a newly constructed builder builds
FreshDocument ==
    DslQueryBuilder_build(<<>>, <<>>, <<>>, <<>>, 1, 10, <<>>, <<>>)

\* what build() reads of the builder
RegisteredAll ==
    <<self_conditions, self_query_string, self_extra_filters, self_ordering, self_page, self_page_size,
      self_aggregations, self_raw_aggregations>>

\* C21: whatever calls preceded it, clear() leaves the builder with what a
\* newly constructed builder holds, and build() right after clear() returns
\* the document a new builder returns: no query, no sort, no aggregations,
\* from 0 and size 10
C21_ClearIsFresh ==
    [][/\ last' = "clear" => RegisteredAll' = <<<<>>, <<>>, <<>>, <<>>, 1, 10, <<>>, <<>>>>
       /\ last = "clear" /\ last' = "build" =>
              /\ doc' = FreshDocument
              /\ to_dict(doc'.search) = [from |-> 0, size |-> 10]]_vars

\* a builder paginated and cleared was built into the document of a new one
C21_Witness ==
    /\ Built /\ ~Raised(doc)
    /\ paged.state = "cleared"
    /\ doc = FreshDocument



-----------------------------------------------------------------------------
(* The probe item of SpecItems *)

Probe == args.item
Probed == Built /\ given = input
\* the first element of a list, the scalar itself otherwise
FirstOf(value) == IF IsList(value) THEN ScalarV(value.list[1]) ELSE value
\* the caller's list with another item in the place of the probe item
ShapeWith(item) == Shape(args.shape, item)

\* C22: an item with gt, gte, lt or lte compiles to a range predicate with one
\* bound, keyed by the method, whose value is the first element of a list of
\* values and the scalar itself otherwise; the other elements of the list
\* change nothing in the document
C22_RangeFirstValue ==
    Probed /\ Probe.method \in RangeMethods /\ Probe.value # ListV(<<>>) =>
        /\ ~Raised(doc)
        /\ doc = DocOf(ShapeWith(Item("a", Probe.method, FirstOf(Probe.value))))
        /\ args.shape = 1 => Filter = Range("b", Probe.method, FirstOf(Probe.value))

C22_Witness ==
    /\ Probed /\ args.shape = 1
    /\ Probe = Item("a", "gte", ListV(<<3, 4>>))
    /\ Filter = Range("b", "gte", ScalarV(3))

RECURSIVE SubQueries(_)

\* the queries directly under a bool or nested node
QueryClauses(q) ==
    IF IsBool(q) THEN q.must \o q.should \o q.must_not \o q.filter
    ELSE IF q.kind = "nested" THEN <<q.query>>
    ELSE <<>>

\* every node of a query, at any depth
SubQueries(q) == {q} \cup UNION {SubQueries(QueryClauses(q)[i]) : i \in DOMAIN QueryClauses(q)}

\* the nodes standing under a must_not
Negated(q) == UNION {{n.must_not[i] : i \in DOMAIN n.must_not} : n \in {m \in SubQueries(q) : IsBool(m)}}

\* C23: an item with exists or nexists compiles to the field-presence
\* predicate, negated for nexists, whatever its values are (null, empty list,
\* non-empty list, scalar); the values never drop the item or make it fail
C23_ExistsIgnoresValue ==
    Probed /\ Probe.method \in ExistsMethods =>
        /\ HasFilter
        /\ doc = DocOf(ShapeWith(Item("a", Probe.method, ListV(<<>>))))
        /\ args.shape = 1 => Filter = IF Probe.method = "exists" THEN Exists("b") ELSE Bool(<<>>, <<>>, <<Exists("b")>>, <<>>, NoneV)
        /\ Probe.method = "exists" => \E n \in SubQueries(Filter) \ Negated(Filter) : n.kind = "exists"
        /\ Probe.method = "nexists" => \E n \in Negated(Filter) : n.kind = "exists"

C23_Witness ==
    /\ Probed /\ args.shape = 3
    /\ Probe = Item("a", "nexists", ListV(<<3, 4>>))
    /\ \E n \in Negated(Filter) : n = Exists("b")

\* C24: an item whose method is none of the ten is no error and is not
\* skipped: at top level and inside groups it compiles to the predicate of the
\* same item with method eq
C24_UnknownMethodIsEq ==
    Probed /\ Probe.method \in UnknownMethods =>
        /\ HasFilter
        /\ doc = DocOf(ShapeWith(Item("a", "eq", Probe.value)))
        /\ args.shape = 1 => Filter = Terms("b", IF IsList(Probe.value) THEN Probe.value.list ELSE <<Probe.value.scalar>>)
        /\ \E n \in SubQueries(Filter) : n.kind = "terms" /\ n # Terms("b", <<1>>)

C24_Witness ==
    /\ Probed /\ args.shape = 3
    /\ Probe = Item("a", "like", ScalarV(3))
    /\ Filter = Bool(<<Terms("b", <<3>>)>>, <<>>, <<>>, <<>>, NoneV)

\* C29: no bool node of a compiled filter is without a clause: every bool
\* node, at any depth, has a clause under must, should or must_not, also when
\* an item's value list is empty
C29_NoEmptyBool ==
    Probed /\ HasFilter =>
        \A n \in SubQueries(Filter) : IsBool(n) => n.must # <<>> \/ n.should # <<>> \/ n.must_not # <<>>

-----------------------------------------------------------------------------
(* The free-text query of a document *)

\* the positions of a string that hold no whitespace
NonBlank(cs) == {i \in DOMAIN cs : cs[i] \notin Whitespace}
\* the string between its first and its last non-whitespace character
Trimmed(cs) ==
    IF NonBlank(cs) = {} THEN <<>>
    ELSE SubSeq(cs, CHOOSE i \in NonBlank(cs) : \A j \in NonBlank(cs) : i <= j, CHOOSE i \in NonBlank(cs) : \A j \in NonBlank(cs) : i >= j)
\* the scored queries of a document: the query itself, or the must clauses
ScoredOf(d) ==
    IF d.search.query = NoneV THEN <<>>
    ELSE IF IsBool(d.search.query) THEN d.search.query.must
    ELSE <<d.search.query>>
\* the filter context of a document
FilterOf(d) == IF d.search.query # NoneV /\ IsBool(d.search.query) THEN d.search.query.filter ELSE <<>>
\* sort, paging and aggregations of a document
RestOf(d) == [d.search EXCEPT !.query = NoneV]
\* the string handed to the latest query_string call, "" standing for null
LatestText == IF args.query_strings[made.arg] = NoneV THEN <<>> ELSE args.query_strings[made.arg].chars
\* the document the registered calls give when no free-text query is registered
DocWithoutText == DslQueryBuilder_build(self_conditions, <<>>, self_extra_filters, self_ordering, self_page, self_page_size, self_aggregations, self_raw_aggregations)

-----------------------------------------------------------------------------
(* QueryStringBuilder and the between comparison *)

\* a registered between filter with fewer than two bounds
ShortBetweenAt(i) == self_filters[i].operator = Enum("between") /\ Len(self_filters[i].values) < 2
ShortBetweenRegistered == \E i \in DOMAIN self_filters : ShortBetweenAt(i)

\* C26: add_filter with operator BETWEEN and fewer than two values raises at
\* the call itself and registers nothing, so no build() runs with such a
\* filter registered
C26_BetweenRaisesAtCall ==
    [][made'.call = "add_filter" /\ BetweenShort(made'.arg) => Raised(made'.result) /\ self_filters' = self_filters]_vars

\* C26, as the code has it: add_filter accepts a between comparison with
\* fewer than two bounds and registers it; the ValueError is raised by every
\* build() run while such a filter is registered, and by no other build()
C26_BetweenRaisesAtBuild ==
    [][/\ made'.call = "add_filter" => ~Raised(made'.result) /\ Len(self_filters') = Len(self_filters) + 1
       /\ made'.call = "build" => (made'.result = Raise("ValueError") <=> ShortBetweenRegistered)]_vars

C26_Witness ==
    /\ made # NoMade /\ made.call = "build" /\ made.result = Raise("ValueError")
    /\ self_filters = <<filter_entry("age", Enum("equal"), ScalarV(18), "or"), filter_entry("age", Enum("between"), ListV(<<18>>), "or")>>

-----------------------------------------------------------------------------
(* ESClientFactory and its cache *)

HasCluster(role) == \E k \in DOMAIN args.clusters : args.clusters[k].role = role
\* the role of the default client: MASTER, or the role of the first cluster
DefaultRole == IF HasCluster("master") THEN "master" ELSE args.clusters[1].role
\* the role a call that returned a client was answered for
RoleAsked(m) ==
    IF m.call = "get_client" THEN (IF m.arg = NoneV THEN DefaultRole ELSE m.arg.role)
    ELSE IF m.call = "get_read_client" THEN (IF HasCluster("read") THEN "read" ELSE DefaultRole)
    ELSE IF HasCluster("write") THEN "write" ELSE DefaultRole
GetCalls == {"get_client", "get_read_client", "get_write_client"}
\* the clients constructed since the latest close_all
Current(objects, era) == {i \in DOMAIN objects : objects[i].era = era}

\* C27: between two close_all calls the factory constructs at most one client
\* for a role; a get call for a role with a cached client returns that client
\* and constructs nothing, also after set_connection_config; close_all closes
\* each cached client once and empties the cache; the first get call for a
\* role after it constructs a client with the configuration set at that moment
C27_OneClientPerRole ==
    [][/\ \A i, j \in DOMAIN created' : i # j /\ created'[i].era = created'[j].era => created'[i].role # created'[j].role
       /\ made'.call \in GetCalls /\ ~Raised(made'.result) =>
            IF RoleAsked(made') \in DOMAIN self_clients
            THEN /\ made'.result.client = self_clients[RoleAsked(made')]
                 /\ created' = created /\ self_clients' = self_clients
            ELSE /\ made'.result.client = Len(created) + 1
                 /\ Len(created') = Len(created) + 1
                 /\ SubSeq(created', 1, Len(created)) = created
                 /\ created'[Len(created')].role = RoleAsked(made')
                 /\ created'[Len(created')].config = self_connection_config
                 /\ created'[Len(created')].closed = 0
                 /\ self_clients'[RoleAsked(made')] = Len(created')
       /\ closed_all' # closed_all =>
            /\ self_clients' = <<>>
            /\ \A i \in DOMAIN created' : created'[i].closed = IF i \in Current(created, closed_all) THEN 1 ELSE created[i].closed
       /\ \A i \in DOMAIN created' :
            /\ created'[i].closed = (IF created'[i].era < closed_all' THEN 1 ELSE 0)
            /\ created'[i].era = closed_all' => created'[i].role \in DOMAIN self_clients' /\ self_clients'[created'[i].role] = i]_vars

C27_Witness ==
    /\ closed_all = 2 /\ Len(created) = 3
    /\ made.call = "get_client" /\ made.result = Returned(3)
    /\ created[1].config = ConnectionConfig(30) /\ created[2].config = ConnectionConfig(60) /\ created[3].config = ConnectionConfig(30)
    /\ created[1].role = created[2].role /\ created[2].role = created[3].role
    /\ created[2].closed = 1 /\ created[3].closed = 0

-----------------------------------------------------------------------------
(* BulkOperationTool and the counts of its result *)

\* C28: the result bulk_execute returns for n operations has total = n and
\* success + failed = n, whatever the bulk requests yield: all succeed, some
\* fail, conflicts of status 409 are retried, or the retries of a batch are
\* exhausted
C28_CountsAddUp ==
    pc = "returned" => bulk_result.total = Len(args.operations) /\ bulk_result.success + bulk_result.failed = Len(args.operations)

-----------------------------------------------------------------------------
(* The caller's objects *)

\* C30: the builder never modifies its caller's input: after conditions(list)
\* and any build() and clear() calls, the caller's list and every node in it,
\* at any depth, are as the caller made them: no key renamed, no origin_key
\* added, no child list replaced or emptied
C30_CallerUntouched ==
    /\ SubSeq(heap, 1, Len(args.heap)) = args.heap
    /\ Deref(heap, args.conditions) = input

C30_Witness ==
    /\ last = "clear" /\ doc # NoDoc /\ ~Raised(doc)
    /\ input = <<Ia, With(Gor, <<Id, Mnokey>>)>>
    /\ Len(heap) > Len(args.heap) + 1
    /\ heap[self_conditions_at] = [list |-> <<>>] /\ self_conditions_at # Len(args.heap) + 1
    /\ "query" \in DOMAIN to_dict(doc.search)

=============================================================================
